---- MODULE Spec2Model ----
(***************************************************************************)
(* Resource topology index and query layer of fabrictestbed:               *)
(*   util/resources_v2.py   ResourcesV2: index construction, listings     *)
(*   util/site_v2.py        records, SiteV2 aggregations, load_site/host   *)
(*   topology_query_api.py  _apply_filters, _paginate, query facade        *)
(***************************************************************************)
EXTENDS Integers, Sequences, FiniteSets, TLC

(***************************************************************************)
(* Python values                                                           *)
(***************************************************************************)
\* Python None in an Optional[int] field (capacities are naturals).
None == -1000
\* Python None in an Optional[str] field.
NoneStr == "None"

\* `x or 0`
OrZero(x) == IF x = None THEN 0 ELSE x

\* max(0, x)
Max0(x) == IF x > 0 THEN x ELSE 0

Min(a, b) == IF a < b THEN a ELSE b

Range(s) == {s[i] : i \in DOMAIN s}

SeqsUpTo(S, n) == UNION {[1..k -> S] : k \in 0..n}

\* d[k] = v on a dict modelled as a finite map
Put(d, k, v) == [x \in DOMAIN d \cup {k} |-> IF x = k THEN v ELSE d[x]]

EmptyDict == [x \in {} |-> 0]

(***************************************************************************)
(* Bounds of the explored inputs                                           *)
(***************************************************************************)
MaxNodes == 2
MaxLinks == 1

SiteNames == {"UCSD", "STAR"}

(***************************************************************************)
(* Raw topology: what the indexing helpers read through getattr            *)
(***************************************************************************)
\* topology.sites: a dict, its keys in insertion order
RawSiteLists == {s \in SeqsUpTo(SiteNames, Cardinality(SiteNames)) :
                    \A i, j \in DOMAIN s : i # j => s[i] # s[j]}

\* a raw component of a node: capacities.unit / allocations.unit
RawComp(c, a) == [capacities_unit |-> c, allocations_unit |-> a]

\* (cores, ram, disk, components) as a raw node exposes them; None where the
\* attribute is absent; allocated may exceed capacity (stale source data)
NodeProfiles ==
  { [cores_capacity |-> 2, cores_allocated |-> 1,
     ram_capacity |-> 3, ram_allocated |-> 5,
     disk_capacity |-> 4, disk_allocated |-> None,
     components |-> ("GPU-Tesla T4" :> RawComp(2, 1))],
    [cores_capacity |-> 1, cores_allocated |-> 3,
     ram_capacity |-> None, ram_allocated |-> 2,
     disk_capacity |-> 6, disk_allocated |-> 2,
     components |-> ("GPU-Tesla T4" :> RawComp(1, 3) @@ "NIC" :> RawComp(None, None))] }

RawNode(t, n, s, p) ==
  [node_type |-> t, name |-> n, site |-> s,
   cores_capacity |-> p.cores_capacity, cores_allocated |-> p.cores_allocated,
   ram_capacity |-> p.ram_capacity, ram_allocated |-> p.ram_allocated,
   disk_capacity |-> p.disk_capacity, disk_allocated |-> p.disk_allocated,
   components |-> p.components]

AnyProfile == CHOOSE p \in NodeProfiles : TRUE

RawNodes ==
  {RawNode("Server", n, s, p) : n \in {"h1", "h2"}, s \in SiteNames, p \in NodeProfiles}
  \cup {RawNode("Switch", "sw1", "UCSD", AnyProfile),
        RawNode("Server", "h1", NoneStr, AnyProfile),
        RawNode("Server", NoneStr, "UCSD", AnyProfile),
        RawNode(NoneStr, "h1", "UCSD", AnyProfile)}

\* an interface of a raw link
RawEp(s, nd, p, c) == [site |-> s, node |-> nd, name |-> p, class_kind |-> c]

RawLink(n, eps) == [name |-> n, interfaces |-> eps]

RawLinks ==
  { RawLink("l1", <<RawEp("UCSD", "n1", "p1", "Port"), RawEp("STAR", "n2", "p2", "Port")>>),
    RawLink("l1", <<RawEp("STAR", "n2", "p2", "Port"), RawEp("UCSD", "n1", "p1", "Port")>>),
    RawLink("l2", <<RawEp("UCSD", "n1", "p1", "Port"), RawEp(NoneStr, NoneStr, "p3", "Port")>>),
    RawLink("l2", <<RawEp(NoneStr, NoneStr, "p3", "Port")>>),
    RawLink("l3", <<RawEp("UCSD", "n1", "fp1", "FacilityPort"), RawEp("STAR", "n2", "p2", "Port")>>),
    RawLink("l3", <<RawEp("UCSD", "n1", "p1", "Port"), RawEp("UCSD", "n3", "p4", "Port")>>),
    RawLink("l4", <<>>),
    RawLink("l5", <<RawEp("UCSD", "n1", "fp1", "FacilityPort"), RawEp("UCSD", "n3", "fp1", "FacilityPort")>>) }

\* The topology handed to ResourcesV2: None (absent), or an object with
\* sites / nodes / links attributes.
Topologies ==
  {[kind |-> "None", sites |-> <<>>, nodes |-> <<>>, links |-> <<>>]}
  \cup [kind : {"object"}, sites : RawSiteLists,
        nodes : SeqsUpTo(RawNodes, MaxNodes), links : SeqsUpTo(RawLinks, MaxLinks)]

(***************************************************************************)
(* Records of site_v2.py                                                   *)
(***************************************************************************)
ComponentInfo(m, c, a) == [model |-> m, capacity |-> c, allocated |-> a]

FacilityPortInfo(s, n) == [site |-> s, name |-> n]

LinkEndpoint(s, nd, p) == [site |-> s, node |-> nd, port |-> p]

\* The fields of the LinkInfo dataclass; none has a default, so each is a
\* required argument of its constructor.
LinkInfoFields ==
  {"name", "layer", "labels", "bandwidth", "allocated_bandwidth", "sites", "endpoints"}

\* The keyword arguments _index_links passes to LinkInfo(...).
LinkInfoArgs == {"name", "layer", "labels", "bandwidth", "endpoints"}

\* LinkInfo(**args) raises TypeError when a required argument is missing.
LinkInfoRaises == (LinkInfoFields \ LinkInfoArgs) # {}

LinkInfo(n, eps) == [name |-> n, endpoints |-> eps]

(***************************************************************************)
(* HostInfo.to_dict and the SiteV2 aggregations (on a site's host view)    *)
(***************************************************************************)
\* HostAvailable without the clamp at zero
HostAvailableUnclamped(c, a) == IF c = None \/ a = None THEN 0 ELSE c - a

\* 0 if capacity is None or allocated is None else max(0, capacity - allocated)
HostAvailable(c, a) == IF c = None \/ a = None THEN 0 ELSE Max0(c - a)

HostInfoToDict(h) ==
  [name |-> h.name, site |-> h.site,
   cores_capacity |-> h.cores_capacity, cores_allocated |-> h.cores_allocated,
   cores_available |-> HostAvailable(h.cores_capacity, h.cores_allocated),
   ram_capacity |-> h.ram_capacity, ram_allocated |-> h.ram_allocated,
   ram_available |-> HostAvailable(h.ram_capacity, h.ram_allocated),
   disk_capacity |-> h.disk_capacity, disk_allocated |-> h.disk_allocated,
   disk_available |-> HostAvailable(h.disk_capacity, h.disk_allocated),
   components |-> [m \in DOMAIN h.components |->
                     [capacity |-> h.components[m].capacity,
                      allocated |-> h.components[m].allocated]]]

\* sum(h.<field> or 0 for h in hosts.values())
RECURSIVE SumField(_, _)
SumField(hosts, f) ==
  IF DOMAIN hosts = {} THEN 0
  ELSE LET k == CHOOSE x \in DOMAIN hosts : TRUE
       IN  OrZero(hosts[k][f]) + SumField([x \in DOMAIN hosts \ {k} |-> hosts[x]], f)

\* aggregate_cores summing the capacity column twice
aggregate_cores_same_column(hosts) ==
  <<SumField(hosts, "cores_capacity"), SumField(hosts, "cores_capacity")>>

aggregate_cores(hosts) ==
  <<SumField(hosts, "cores_capacity"), SumField(hosts, "cores_allocated")>>

aggregate_ram(hosts) ==
  <<SumField(hosts, "ram_capacity"), SumField(hosts, "ram_allocated")>>

aggregate_disk(hosts) ==
  <<SumField(hosts, "disk_capacity"), SumField(hosts, "disk_allocated")>>

\* the loop of aggregate_components for one model: entry[f] += comp.<f> or 0
RECURSIVE SumComp(_, _, _)
SumComp(hosts, m, f) ==
  IF DOMAIN hosts = {} THEN 0
  ELSE LET k == CHOOSE x \in DOMAIN hosts : TRUE
           rest == [x \in DOMAIN hosts \ {k} |-> hosts[x]]
       IN  (IF m \in DOMAIN hosts[k].components
            THEN OrZero(hosts[k].components[m][f]) ELSE 0) + SumComp(rest, m, f)

aggregate_components(hosts) ==
  [m \in UNION {DOMAIN hosts[k].components : k \in DOMAIN hosts} |->
     LET cap == SumComp(hosts, m, "capacity")
         alloc == SumComp(hosts, m, "allocated")
     IN  [capacity |-> cap, allocated |-> alloc, available |-> Max0(cap - alloc)]]

to_summary(name, hosts) ==
  LET cores == aggregate_cores(hosts)
      ram == aggregate_ram(hosts)
      disk == aggregate_disk(hosts)
  IN  [name |-> name,
       cores_capacity |-> cores[1], cores_allocated |-> cores[2],
       cores_available |-> Max0(cores[1] - cores[2]),
       ram_capacity |-> ram[1], ram_allocated |-> ram[2],
       ram_available |-> Max0(ram[1] - ram[2]),
       disk_capacity |-> disk[1], disk_allocated |-> disk[2],
       disk_available |-> Max0(disk[1] - disk[2]),
       components |-> aggregate_components(hosts),
       hosts_count |-> Cardinality(DOMAIN hosts)]

(***************************************************************************)
(* State                                                                   *)
(***************************************************************************)
VARIABLES
  topology,      \* ResourcesV2.topology
  pc,            \* position of ResourcesV2.__post_init__ / _index_everything
  sites,         \* keys of ResourcesV2._sites, in insertion order
  hostsBySite,   \* ResourcesV2._hosts_by_site
  fpsBySite,     \* ResourcesV2._facility_ports_by_site
  linksBySite,   \* ResourcesV2._links_by_site
  views,         \* per site: the indices bound to its SiteV2 object
  lastRead,      \* the last read operation on the finished index and its result
  qCall,         \* the call made on the query layer: operation and arguments
  qRet,          \* what that call returned or raised
  qTrace,        \* the calls that call made: summary fetches and filters(r)
  rawSite,       \* the raw site handed to load_site
  lsPc,          \* position of load_site
  lsIdx,         \* number of children load_site has iterated over
  lsHosts,       \* load_site's local `hosts`
  lsSwitches,    \* load_site's local `switches`
  lsRet,         \* the tuple load_site returned
  fmConf,        \* FabricManagerV2.auto_refresh, and whether project_id or project_name is set
  fmTokens,      \* FabricManagerV2._tokens
  cmIssued,      \* the token sets the Credential Manager has issued
  fmCalls,       \* per call on the FabricManagerV2 object: position, locals, result
  poaCall,       \* the arguments of FabricManagerV2.poa and the submission's answer
  poaPc,         \* position of FabricManagerV2.poa
  poaAttempt,    \* poa's local `attempt`
  poaLatest,     \* poa's local `latest`
  poaRet,        \* what poa returned or raised
  tmPair,        \* TokenManagerV2._pair
  tmLock,        \* the owner of TokenManagerV2._lock (0: free)
  tmThreads,     \* per thread calling the TokenManagerV2: position, locals, result
  smConf,        \* the parameters and environment of SliceManager(...)
  smPc,          \* the SliceManager: not yet constructed, ready, or its constructor raised
  smInitialized, \* SliceManager.initialized
  smTokens,      \* SliceManager.tokens
  smFile,        \* the token file at token_location
  smLoads,       \* how often initialize() has called __load_tokens
  smLast         \* the last call on the SliceManager and its outcome

indexVars == <<topology, pc, sites, hostsBySite, fpsBySite, linksBySite, views, lastRead>>

queryVars == <<qCall, qRet, qTrace>>

loadVars == <<rawSite, lsPc, lsIdx, lsHosts, lsSwitches, lsRet>>

fmVars == <<fmConf, fmTokens, cmIssued, fmCalls>>

poaVars == <<poaCall, poaPc, poaAttempt, poaLatest, poaRet>>

tmVars == <<tmPair, tmLock, tmThreads>>

smVars == <<smConf, smPc, smInitialized, smTokens, smFile, smLoads, smLast>>

vars == <<indexVars, queryVars, loadVars, fmVars, poaVars, tmVars, smVars>>

(***************************************************************************)
(* ResourcesV2 indexing helpers                                            *)
(***************************************************************************)
\* str(kind).lower() if kind else ""
KindS(kind) ==
  CASE kind = "Server" -> "server"
    [] kind = "Switch" -> "switch"
    [] kind = "FacilityPort" -> "facilityport"
    [] kind = "Port" -> "port"
    [] OTHER -> ""

\* _index_sites: one SiteV2 per raw site; an absent topology has no `sites`,
\* no `get_sites` and is no dict, so it yields no items and nothing is raised.
IndexSites(topo) == IF topo.kind = "None" THEN <<>> ELSE topo.sites

HostInfoOf(n) ==
  [name |-> n.name, site |-> n.site,
   cores_capacity |-> n.cores_capacity, cores_allocated |-> n.cores_allocated,
   ram_capacity |-> n.ram_capacity, ram_allocated |-> n.ram_allocated,
   disk_capacity |-> n.disk_capacity, disk_allocated |-> n.disk_allocated,
   components |-> [m \in DOMAIN n.components |->
                     ComponentInfo(m, n.components[m].capacities_unit,
                                      n.components[m].allocations_unit)]]

RECURSIVE IndexHostsFrom(_, _, _)
IndexHostsFrom(nodes, i, acc) ==
  IF i > Len(nodes) THEN acc
  ELSE LET n == nodes[i]
           skip == \/ KindS(n.node_type) \notin {"server", "node", "compute"}
                   \/ n.name = NoneStr
                   \/ n.site = NoneStr
                   \/ n.site \notin DOMAIN acc
       IN  IndexHostsFrom(nodes, i + 1,
             IF skip THEN acc
             ELSE [acc EXCEPT ![n.site] = Put(@, n.name, HostInfoOf(n))])

\* _index_hosts
IndexHosts(topo, ss) ==
  IndexHostsFrom(topo.nodes, 1, [s \in Range(ss) |-> EmptyDict])

RECURSIVE IndexFpEndpoints(_, _, _)
IndexFpEndpoints(eps, i, acc) ==
  IF i > Len(eps) THEN acc
  ELSE LET ep == eps[i]
           skip == \/ KindS(ep.class_kind) \notin {"facilityport", "facility_port"}
                   \/ ep.site \notin DOMAIN acc
                   \/ ep.name = NoneStr
       IN  IndexFpEndpoints(eps, i + 1,
             IF skip THEN acc
             ELSE [acc EXCEPT ![ep.site] = Put(@, ep.name, FacilityPortInfo(ep.site, ep.name))])

RECURSIVE IndexFpLinks(_, _, _)
IndexFpLinks(links, i, acc) ==
  IF i > Len(links) THEN acc
  ELSE IndexFpLinks(links, i + 1, IndexFpEndpoints(links[i].interfaces, 1, acc))

\* _index_facility_ports
IndexFacilityPorts(topo, ss) ==
  IndexFpLinks(topo.links, 1, [s \in Range(ss) |-> EmptyDict])

\* the endpoints and sites_seen of one raw link
LinkEps(l) ==
  [k \in DOMAIN l.interfaces |->
     LinkEndpoint(l.interfaces[k].site, l.interfaces[k].node, l.interfaces[k].name)]

SitesSeen(l, ss) == {l.interfaces[k].site : k \in DOMAIN l.interfaces} \cap Range(ss)

\* _index_links, from link i on: the buckets, and whether LinkInfo(...) raised
RECURSIVE IndexLinksFrom(_, _, _, _)
IndexLinksFrom(links, i, ss, acc) ==
  IF i > Len(links) THEN [raised |-> FALSE, buckets |-> acc]
  ELSE IF LinkInfoRaises THEN [raised |-> TRUE, buckets |-> acc]
  ELSE LET l == links[i]
           info == LinkInfo(l.name, LinkEps(l))
       IN  IndexLinksFrom(links, i + 1, ss,
             [s \in DOMAIN acc |->
                IF s \in SitesSeen(l, ss) THEN Append(acc[s], info) ELSE acc[s]])

\* _index_links
IndexLinks(topo, ss) == IndexLinksFrom(topo.links, 1, ss, [s \in Range(ss) |-> <<>>])

(***************************************************************************)
(* ResourcesV2 public API                                                  *)
(***************************************************************************)
\* the deduplication key of list_links
LinkKey(l) ==
  <<l.name, [k \in DOMAIN l.endpoints |->
               <<l.endpoints[k].site, l.endpoints[k].node, l.endpoints[k].port>>]>>

RECURSIVE Concat(_, _, _)
Concat(buckets, ss, i) ==
  IF i > Len(ss) THEN <<>> ELSE buckets[ss[i]] \o Concat(buckets, ss, i + 1)

RECURSIVE Dedup(_, _, _, _)
Dedup(out, i, seen, deduped) ==
  IF i > Len(out) THEN deduped
  ELSE IF LinkKey(out[i]) \in seen THEN Dedup(out, i + 1, seen, deduped)
  ELSE Dedup(out, i + 1, seen \cup {LinkKey(out[i])}, Append(deduped, out[i]))

\* list_links
ListLinks(buckets, ss) == Dedup(Concat(buckets, ss, 1), 1, {}, <<>>)

\* list_site_names
ListSiteNames == sites

\* dict.values() as a list (the order within one dict is not modelled)
RECURSIVE DictValues(_)
DictValues(dct) ==
  IF DOMAIN dct = {} THEN <<>>
  ELSE LET k == CHOOSE x \in DOMAIN dct : TRUE
       IN  <<dct[k]>> \o DictValues([x \in DOMAIN dct \ {k} |-> dct[x]])

\* list_facility_ports
RECURSIVE ListFacilityPorts(_, _, _)
ListFacilityPorts(fps, ss, i) ==
  IF i > Len(ss) THEN <<>>
  ELSE (IF \E j \in 1..(i - 1) : ss[j] = ss[i] THEN <<>> ELSE DictValues(fps[ss[i]]))
       \o ListFacilityPorts(fps, ss, i + 1)

(***************************************************************************)
(* Filter and pagination engine, query facade (topology_query_api.py)      *)
(***************************************************************************)
MaxRecords == 3

\* records as the summary endpoint returns them (host records)
Records ==
  { [name |-> "w1", site |-> "UCSD"],
    [name |-> "w2", site |-> "STAR"],
    [name |-> "w3", site |-> "RENC"] }

RecordLists == SeqsUpTo(Records, MaxRecords)

\* The `filters` argument: None, a callable, or (what the annotation
\* FilterFunc does not admit, but nothing rejects) a structured mapping.
NoFilter == [kind |-> "None", fn |-> "", spec |-> <<>>]

Callable(fn) == [kind |-> "callable", fn |-> fn, spec |-> <<>>]

\* {field: {op: value}}
FieldCond(f, o, v) == [field |-> f, op |-> o, value |-> v]

\* {field: {op: value}} and {or: [{site: {eq: a}}, {site: {eq: b}}]}
MappingSpec(c) == [kind |-> "mapping", fn |-> "and", spec |-> <<c>>]

OrSpec(a, b) ==
  [kind |-> "mapping", fn |-> "or",
   spec |-> <<FieldCond("site", "eq", a), FieldCond("site", "eq", b)>>]

CallableNames == {"site_is_UCSD", "site_in_UCSD_STAR", "always", "never"}

FilterArgs ==
  {NoFilter}
  \cup {Callable(fn) : fn \in CallableNames}
  \cup {MappingSpec(FieldCond("site", "eq", "UCSD")),
        MappingSpec(FieldCond("rack", "eq", "r1")),
        MappingSpec(FieldCond("site", "matches", "UCSD")),
        OrSpec("UCSD", "STAR"),
        OrSpec("STAR", "RENC")}

\* filters(r) for the callables of the docstring: lambda r: r.get('site') == 'UCSD', ...
CallFilter(fn, r) ==
  CASE fn = "site_is_UCSD" -> r.site = "UCSD"
    [] fn = "site_in_UCSD_STAR" -> r.site \in {"UCSD", "STAR"}
    [] fn = "always" -> TRUE
    [] OTHER -> FALSE

Returned(v) == [status |-> "list", value |-> v]

ReturnedNone == [status |-> "None", value |-> <<>>]

Raised(e) == [status |-> e, value |-> <<>>]

\* the calls of filters(r) that _apply_filters makes, as indices into data:
\* the comprehension calls it once per record, in order, and the call on
\* something that is not callable raises at the first record
FilterCalls(data, filters) ==
  IF filters.kind = "None" \/ Len(data) = 0 THEN <<>>
  ELSE IF filters.kind # "callable" THEN <<[ev |-> "filter", arg |-> 1]>>
  ELSE [i \in 1..Len(data) |-> [ev |-> "filter", arg |-> i]]

\* _apply_filters stopping at the first record the callable rejects
ApplyFiltersUntilReject(data, filters) ==
  IF filters.kind = "None" THEN [status |-> "list", value |-> data]
  ELSE IF Len(data) = 0 THEN [status |-> "list", value |-> <<>>]
  ELSE IF filters.kind # "callable" THEN [status |-> "TypeError", value |-> <<>>]
  ELSE LET rejected == {i \in 1..Len(data) : ~CallFilter(filters.fn, data[i])}
           stop == IF rejected = {} THEN Len(data)
                   ELSE (CHOOSE i \in rejected : \A j \in rejected : i <= j) - 1
       IN  [status |-> "list", value |-> SubSeq(data, 1, stop)]

\* _apply_filters: `filters(r)` on something that is not callable raises
\* TypeError at the first record
ApplyFilters(data, filters) ==
  IF filters.kind = "None" THEN Returned(data)
  ELSE IF Len(data) = 0 THEN Returned(<<>>)
  ELSE IF filters.kind # "callable" THEN Raised("TypeError")
  ELSE Returned(SelectSeq(data, LAMBDA r : CallFilter(filters.fn, r)))

\* data[a:b] for a, b >= 0
PySlice(data, a, b) ==
  LET lo == Min(a, Len(data))
      hi == Min(b, Len(data))
  IN  [i \in 1..Max0(hi - lo) |-> data[lo + i]]

\* _paginate slicing data[start:limit] instead of data[start:start + limit]
PaginateEndIsLimit(data, limit, offset) ==
  LET start == Max0(OrZero(offset))
  IN  IF limit = None THEN PySlice(data, start, Len(data))
      ELSE PySlice(data, start, Max0(limit))

\* _paginate without max(0, ...) around the offset: data[-1:] counts from the end
PaginateOffsetFromEnd(data, limit, offset) ==
  LET o == OrZero(offset)
      start == IF o < 0 THEN Max0(Len(data) + o) ELSE o
  IN  IF limit = None THEN PySlice(data, start, Len(data))
      ELSE PySlice(data, start, start + Max0(limit))

\* _paginate
Paginate(data, limit, offset) ==
  LET start == Max0(OrZero(offset))
  IN  IF limit = None THEN PySlice(data, start, Len(data))
      ELSE PySlice(data, start, start + Max0(limit))

LimitArgs == {None} \cup (-1 .. MaxRecords + 1)

OffsetArgs == {None} \cup (-1 .. MaxRecords + 1)

\* what the orchestrator's summary call does: raises, answers without the
\* requested key (or with nothing), or answers with the items
FetchOutcomes == {"raises", "no_key", "items"}

\* the public methods class OrchestratorClient defines
OrchestratorClientMethods ==
  {"create", "modify", "modify_accept", "delete", "slices", "get_slice",
   "slivers", "resources", "portal_resources", "renew", "poa", "get_poas"}

\* self.orch.<method>(...): the attribute lookup raises AttributeError for a
\* method the client does not define, before any request is sent
OrchCall(method, reply) ==
  IF method \in OrchestratorClientMethods THEN reply ELSE "raises"

\* the requests resources_summary sends: one when the method it calls exists
\* (self.orch.portal_resources_summary without a token is not defined either)
SummaryFetches ==
  IF "resources_summary" \in OrchestratorClientMethods
  THEN <<[ev |-> "fetch", arg |-> 0]>> ELSE <<>>

\* resources_summary: every exception becomes None
ResourcesSummary(fetch, data) ==
  IF OrchCall("resources_summary", fetch) = "items"
  THEN [present |-> TRUE, items |-> data]
  ELSE [present |-> FALSE, items |-> <<>>]

\* query_sites / query_hosts / query_facility_ports / query_links
Query(fetch, data, filters, limit, offset) ==
  LET summary == ResourcesSummary(fetch, data)
  IN  IF ~summary.present THEN ReturnedNone
      ELSE LET items == ApplyFilters(summary.items, filters)
           IN  IF items.status # "list" THEN items
               ELSE Returned(Paginate(items.value, limit, offset))

\* the calls a query_* call makes: the fetch, then the filter on its items
QueryCalls(fetch, data, filters) ==
  SummaryFetches \o
    (IF ResourcesSummary(fetch, data).present
     THEN FilterCalls(data, filters) ELSE <<>>)

NoCall ==
  [op |-> "none", fetch |-> "", data |-> <<>>, filters |-> NoFilter,
   limit |-> None, offset |-> None]

\* no call on the query layer
QueryIdle ==
  /\ qCall = NoCall
  /\ qRet = ReturnedNone
  /\ qTrace = <<>>

(***************************************************************************)
(* Builders of site_v2.py: load_host, load_switch, load_site               *)
(***************************************************************************)
MaxChildren == 2
MaxComps == 2

\* an attribute the raw object does not have (plain access raises
\* AttributeError)
MissingAttr == "<missing>"

\* one (model_name, comp) pair of host.components.items()
RawItem(mn, model, c, a) ==
  [model_name |-> mn, model |-> model, capacities_unit |-> c, capacity_allocations_unit |-> a]

RawItems ==
  { RawItem("GPU-Tesla T4", "Tesla T4", 1, 0),
    RawItem("GPU-Tesla T4", MissingAttr, 1, 1),
    RawItem("NIC", "ConnectX-6", None, None) }

\* a child of a raw site; components_ok = FALSE: `components` is None, so
\* .items() raises
RawServer(ok, items) ==
  [type |-> "Server", components_ok |-> ok, items |-> items,
   core |-> 4, core_allocated |-> 1, ram |-> 8, ram_allocated |-> 2,
   disk |-> 10, disk_allocated |-> 3]

RawOther(t) ==
  [type |-> t, components_ok |-> TRUE, items |-> <<>>,
   core |-> 0, core_allocated |-> 0, ram |-> 0, ram_allocated |-> 0,
   disk |-> 0, disk_allocated |-> 0]

RawChildren ==
  {RawServer(TRUE, items) : items \in SeqsUpTo(RawItems, MaxComps)}
  \cup {RawServer(FALSE, <<>>), RawOther("Switch"), RawOther("Facility"), RawOther(MissingAttr)}

\* the key of the i-th entry of site.children
ChildName(i) == <<"c1", "c2", "c3", "c4">>[i]

\* a raw site; children_ok = FALSE: accessing `children` raises;
\* meta_ok = FALSE: reading location / flags raises
RawSites ==
  [site : {"UCSD"}, children_ok : {TRUE}, children : SeqsUpTo(RawChildren, MaxChildren),
   meta_ok : BOOLEAN]
  \cup [site : {"UCSD"}, children_ok : {FALSE}, children : {<<>>}, meta_ok : BOOLEAN]

\* the component loop of load_host with a later same-named component
\* replacing the earlier one
RECURSIVE LoadComponentsOverwrite(_, _, _)
LoadComponentsOverwrite(items, i, comps) ==
  IF i > Len(items) THEN [raised |-> FALSE, components |-> comps]
  ELSE LET it == items[i]
       IN  IF it.model = MissingAttr
           THEN [raised |-> TRUE, components |-> comps]
           ELSE LoadComponentsOverwrite(items, i + 1,
                  Put(comps, it.model_name,
                      ComponentInfo(it.model, it.capacities_unit, it.capacity_allocations_unit)))

\* the component loop of load_host from item i on: same-named components are
\* summed; the first of a name reads comp.model
RECURSIVE LoadComponents(_, _, _)
LoadComponents(items, i, comps) ==
  IF i > Len(items) THEN [raised |-> FALSE, components |-> comps]
  ELSE LET it == items[i]
           mn == it.model_name
       IN  IF mn \in DOMAIN comps
           THEN LoadComponents(items, i + 1,
                  Put(comps, mn,
                      ComponentInfo(comps[mn].model,
                                    OrZero(comps[mn].capacity) + OrZero(it.capacities_unit),
                                    OrZero(comps[mn].allocated) + OrZero(it.capacity_allocations_unit))))
           ELSE IF it.model = MissingAttr
           THEN [raised |-> TRUE, components |-> comps]
           ELSE LoadComponents(items, i + 1,
                  Put(comps, mn,
                      ComponentInfo(it.model, it.capacities_unit, it.capacity_allocations_unit)))

\* load_host
LoadHost(site_name, host_name, host) ==
  IF ~host.components_ok THEN [raised |-> TRUE, host |-> EmptyDict]
  ELSE LET r == LoadComponents(host.items, 1, EmptyDict)
       IN  IF r.raised THEN [raised |-> TRUE, host |-> EmptyDict]
           ELSE [raised |-> FALSE,
                 host |-> [name |-> host_name, site |-> site_name,
                           components |-> r.components,
                           cores_capacity |-> host.core, ram_capacity |-> host.ram,
                           disk_capacity |-> host.disk,
                           cores_allocated |-> host.core_allocated,
                           ram_allocated |-> host.ram_allocated,
                           disk_allocated |-> host.disk_allocated]]

\* load_switch
LoadSwitch(name, switch) == [model |-> name, capacity |-> None, allocated |-> None]

SiteV2(name, state) == [name |-> name, state |-> state]

NoReturn == [site |-> SiteV2("", NoneStr), hosts |-> EmptyDict, switches |-> EmptyDict]

\* no load_site call
LoadIdle ==
  /\ rawSite = [site |-> "UCSD", children_ok |-> TRUE, children |-> <<>>, meta_ok |-> TRUE]
  /\ lsPc = "idle"
  /\ lsIdx = 0
  /\ lsHosts = EmptyDict
  /\ lsSwitches = EmptyDict
  /\ lsRet = NoReturn

(***************************************************************************)
(* FabricManagerV2 token management (fabric_manager_v2.py)                 *)
(***************************************************************************)
\* the calls that run on one FabricManagerV2 object
FacadeCalls == {1, 2}

\* the number of token sets the Credential Manager issues in one behaviour
MaxIssued == 2

\* a token string; NoTok is Python's None, EmptyTok the empty string
Tok(kind, n) == [kind |-> kind, n |-> n]

NoTok == Tok("None", 0)

EmptyTok == Tok("empty", 0)

\* `if x:` on an Optional[str]
Truthy(x) == x \notin {NoTok, EmptyTok}

\* datetime.now(timezone.utc), in minutes
Now == 0

\* timedelta(minutes=30)
RefreshWindowMinutes == 30

\* now >= expires_at - timedelta(minutes=30), for a determinable expiry
NearExpiry(exp) == exp # None /\ Now >= exp - RefreshWindowMinutes

\* now >= expires_at (auto_refresh off)
Expired(exp) == exp # None /\ Now >= exp

\* expiry times (minutes) of the tokens an object is constructed with
ExpiryTimes == {None, -40, 20, 30, 40}

\* the lifetime (minutes) of a token set the Credential Manager issues
IssuedLifetime == 240

\* the `exp` claim credmgr.validate decodes from id_token `tok`; None when the
\* call raises or the claim is absent
DecodedExp(tok) ==
  IF tok.kind = "id" /\ tok.n > 0 THEN {None, Now + IssuedLifetime} ELSE {None, 20, 40}

\* self._tokens (an absent key reads as None through .get)
Tokens(id, rt, exp, created) ==
  [id_token |-> id, refresh_token |-> rt, expires_at |-> exp, created_at |-> created]

\* id_token_expires_at: the stored expires_at first, else the decoded claim
IdTokenExpiresAt(tokens, decoded) ==
  IF tokens.expires_at # None THEN tokens.expires_at
  ELSE IF Truthy(tokens.id_token) THEN decoded ELSE None

\* the n-th token set the Credential Manager issues (valid for four hours)
Issued(n) == Tokens(Tok("id", n), Tok("rt", n), Now + IssuedLifetime, Now)

NoOutcome == [status |-> "none", value |-> NoTok]

ReturnedTok(v) == [status |-> "returned", value |-> v]

RaisedFm == [status |-> "FabricManagerV2Exception", value |-> NoTok]

\* one call: its position, arguments, locals, result, the refresh requests
\* it has sent, and the stored tokens it found when it was made
CallIdle ==
  [pc |-> "idle", op |-> "", arg |-> NoTok, tok |-> NoTok, exp |-> None,
   rtok |-> NoTok, reply |-> Tokens(NoTok, NoTok, None, None),
   before |-> Tokens(NoTok, NoTok, None, None),
   ret |-> NoOutcome, refreshes |-> 0, resolves |-> 0]

\* no FabricManagerV2 object
FmIdle ==
  /\ fmConf = [auto_refresh |-> TRUE, has_project |-> TRUE]
  /\ fmTokens = Tokens(NoTok, NoTok, None, None)
  /\ cmIssued = 0
  /\ fmCalls = [t \in FacadeCalls |-> CallIdle]

(***************************************************************************)
(* FabricManagerV2.poa (fabric_manager_v2.py)                              *)
(***************************************************************************)
\* the largest `retry` argument tried
MaxRetry == 3

\* poa(..., return_fmt, wait, retry) and the submission it gets
PoaCalls ==
  [fmt : {"dict", "dto"}, wait : BOOLEAN, retry : -1 .. MaxRetry, sub : {"raises", "empty", "no_id", "id"}]

\* poa_id = getattr(first, "poa_id", None) or first.get("poa_id")
\*            if isinstance(first, dict) else None
\* The conditional expression binds weaker than `or`: the whole left side is
\* evaluated only for a dict, and a PoaDataDTO always yields None.
PoaIdOf(fmt, sub) ==
  IF sub # "id" THEN NoneStr
  ELSE IF fmt = "dict" THEN "poa-1" ELSE NoneStr

\* what one self.orch.get_poas(...) call gives: an exception, an empty list,
\* or a list whose first entry is in the given state (with or without an
\* info entry for the operation)
PollOutcomes == {"raises", "empty", "Running", "Failed", "Success", "Success_info"}

\* entry.state of the first entry of a poll result
StateOf(o) == IF o = "Success_info" THEN "Success" ELSE o

PoaReturned(v) == [status |-> "returned", value |-> v]

PoaRaised(e) == [status |-> "raised", value |-> e]

\* no poa call
PoaIdle ==
  /\ poaCall = [fmt |-> "dict", wait |-> FALSE, retry |-> 0, sub |-> "empty"]
  /\ poaPc = "idle"
  /\ poaAttempt = 0
  /\ poaLatest = ""
  /\ poaRet = [status |-> "none", value |-> ""]

(***************************************************************************)
(* TokenManagerV2 (token_manager/token_manager_v2.py)                      *)
(***************************************************************************)
\* the threads that call one TokenManagerV2 object
TmThreadIds == {1, 2}

\* refresh_skew_sec
RefreshSkewSec == 300

\* TokenPair(id_token, refresh_token, created_at): a frozen dataclass
TokenPair(id, rt, created) ==
  [id_token |-> id, refresh_token |-> rt, created_at |-> created]

\* exp_dt <= now + self.refresh_skew
ExpiringSoon(exp) == exp <= Now + RefreshSkewSec

\* the token datum the Credential Manager answers thread t's request with
TmDatum(t, r) ==
  [id_token |-> IF r = "empty" THEN NoTok ELSE Tok("id", t),
   refresh_token |-> IF r = "tokens" THEN Tok("rt", t) ELSE NoTok]

\* new_rt = tokens.get("refresh_token") or self._pair.refresh_token
RefreshedPair(datum, pair) ==
  TokenPair(datum.id_token,
            IF Truthy(datum.refresh_token) THEN datum.refresh_token
            ELSE pair.refresh_token,
            Now)

\* no lock around the bodies
CanAcquireUnlocked(t) == TRUE

\* `with self._lock:` can be entered by thread t
CanAcquire(t) == tmLock = 0

TmThreadIdle ==
  [pc |-> "idle", op |-> "", allow_refresh |-> TRUE, exp |-> None,
   body |-> NoTok, resp |-> "", ret |-> NoOutcome]

\* no TokenManagerV2 object
TmIdle ==
  /\ tmPair = TokenPair(NoTok, NoTok, None)
  /\ tmLock = 0
  /\ tmThreads = [t \in TmThreadIds |-> TmThreadIdle]

(***************************************************************************)
(* SliceManager (slice_manager/slice_manager.py) and the CLI command       *)
(* `resources query` (cli/cli.py)                                          *)
(***************************************************************************)
\* timedelta(minutes=180) of __should_renew
RenewAfterMinutes == 180

\* initialize() calls that load tokens, explored per SliceManager
MaxLoads == 2

\* self.tokens / the contents of the token file: the id_token and how many
\* minutes ago created_at lies (None: the key is absent)
SmTokens(id, age) == [id_token |-> id, created_at |-> age]

\* __should_renew without its call of __check_initialized
ShouldRenewUnchecked(initialized, tokens) ==
  IF tokens.created_at = None THEN "TypeError"
  ELSE IF tokens.id_token = NoTok \/ tokens.created_at >= RenewAfterMinutes THEN "True"
  ELSE "False"

\* __should_renew: __check_initialized raises 'Slice Manager has not been
\* initialized!'; strptime(None, ...) raises TypeError when created_at is
\* absent; else True or False
ShouldRenew(initialized, tokens) ==
  IF ~initialized THEN "not initialized"
  ELSE IF tokens.created_at = None THEN "TypeError"
  ELSE IF tokens.id_token = NoTok \/ tokens.created_at >= RenewAfterMinutes THEN "True"
  ELSE "False"

\* __load_tokens(refresh): read the token file if it exists, then, with
\* refresh and auto_refresh, refresh_tokens: the Credential Manager answers
\* (cm) with new tokens, which are stored and written to the file, or the
\* call raises SliceManagerException
LoadTokens(tokens, file, refresh, cm) ==
  LET read == IF file.exists THEN file.tokens ELSE tokens
      new == SmTokens(Tok("id", 1), 0)
  IN  IF ~refresh THEN [tokens |-> read, file |-> file, raised |-> FALSE, requests |-> {}]
      ELSE IF cm = "ok"
           THEN [tokens |-> new, file |-> [exists |-> TRUE, tokens |-> new],
                 raised |-> FALSE, requests |-> {"cm"}]
           ELSE [tokens |-> read, file |-> file, raised |-> TRUE, requests |-> {"cm"}]

\* the last call on the SliceManager: what it was, the state it found, what
\* it answered and the services it sent a request to
SmNoCall ==
  [op |-> "", valid |-> TRUE, authenticated |-> FALSE, initialized |-> FALSE,
   tokens |-> SmTokens(NoTok, None), renew |-> "", loaded |-> FALSE,
   status |-> "", error |-> "", requests |-> {}, exit |-> None]

\* no SliceManager object
SmIdle ==
  /\ smConf = [caller |-> "", hosts |-> FALSE, project |-> FALSE, token_project |-> FALSE,
               initialize |-> FALSE, auto_refresh |-> FALSE]
  /\ smPc = "none"
  /\ smInitialized = FALSE
  /\ smTokens = SmTokens(NoTok, None)
  /\ smFile = [exists |-> FALSE, tokens |-> SmTokens(NoTok, None)]
  /\ smLoads = 0
  /\ smLast = SmNoCall

(***************************************************************************)
(* ResourcesV2(topology): __post_init__ runs _index_everything             *)
(***************************************************************************)
\* no ResourcesV2 under construction
IndexIdle ==
  /\ topology = [kind |-> "None", sites |-> <<>>, nodes |-> <<>>, links |-> <<>>]
  /\ pc = "idle"
  /\ sites = <<>>
  /\ hostsBySite = EmptyDict
  /\ fpsBySite = EmptyDict
  /\ linksBySite = EmptyDict
  /\ views = EmptyDict
  /\ lastRead = [op |-> "", site |-> NoneStr, value |-> <<>>]

InitIndex ==
  /\ topology \in Topologies
  /\ pc = "new"
  /\ sites = <<>>
  /\ hostsBySite = EmptyDict
  /\ fpsBySite = EmptyDict
  /\ linksBySite = EmptyDict
  /\ views = EmptyDict
  /\ lastRead = [op |-> "", site |-> NoneStr, value |-> <<>>]
  /\ QueryIdle
  /\ LoadIdle
  /\ FmIdle
  /\ PoaIdle
  /\ TmIdle
  /\ SmIdle

DoIndexSites ==
  /\ pc = "new"
  /\ sites' = IndexSites(topology)
  /\ pc' = "sites"
  /\ UNCHANGED <<topology, hostsBySite, fpsBySite, linksBySite, views, lastRead>>
  /\ UNCHANGED <<queryVars, loadVars, fmVars, poaVars, tmVars, smVars>>

DoIndexHosts ==
  /\ pc = "sites"
  /\ hostsBySite' = IndexHosts(topology, sites)
  /\ pc' = "hosts"
  /\ UNCHANGED <<topology, sites, fpsBySite, linksBySite, views, lastRead>>
  /\ UNCHANGED <<queryVars, loadVars, fmVars, poaVars, tmVars, smVars>>

DoIndexFacilityPorts ==
  /\ pc = "hosts"
  /\ fpsBySite' = IndexFacilityPorts(topology, sites)
  /\ pc' = "fps"
  /\ UNCHANGED <<topology, sites, hostsBySite, linksBySite, views, lastRead>>
  /\ UNCHANGED <<queryVars, loadVars, fmVars, poaVars, tmVars, smVars>>

\* _index_links; a TypeError from LinkInfo(...) leaves _index_everything and
\* the constructor
DoIndexLinks ==
  /\ pc = "fps"
  /\ LET r == IndexLinks(topology, sites)
     IN  /\ linksBySite' = r.buckets
         /\ pc' = IF r.raised THEN "raised" ELSE "links"
  /\ UNCHANGED <<topology, sites, hostsBySite, fpsBySite, views, lastRead>>
  /\ UNCHANGED <<queryVars, loadVars, fmVars, poaVars, tmVars, smVars>>

\* the binding loop that ends _index_everything
DoBind ==
  /\ pc = "links"
  /\ views' = [s \in Range(sites) |->
                 [hosts |-> hostsBySite[s],
                  facility_ports |-> fpsBySite[s],
                  links |-> linksBySite[s]]]
  /\ pc' = "done"
  /\ UNCHANGED <<topology, sites, hostsBySite, fpsBySite, linksBySite, lastRead>>
  /\ UNCHANGED <<queryVars, loadVars, fmVars, poaVars, tmVars, smVars>>

\* list_hosts written so that it empties the buckets it walks through
DoReadDraining ==
  /\ pc = "done"
  /\ lastRead' = [op |-> "list_hosts", site |-> NoneStr,
                  value |-> ListFacilityPorts(hostsBySite, sites, 1)]
  /\ hostsBySite' = [s \in DOMAIN hostsBySite |-> EmptyDict]
  /\ UNCHANGED <<topology, pc, sites, fpsBySite, linksBySite, views>>
  /\ UNCHANGED <<queryVars, loadVars, fmVars, poaVars, tmVars, smVars>>

\* One read operation on the finished index: the list_* methods and get_site
\* of ResourcesV2 (list_hosts joins the values of the per-site dicts, as
\* list_facility_ports does), and for an indexed site the accessors,
\* aggregations, to_summary of SiteV2 and to_dict of its host records.
\* Each builds a new list or dict from the index and assigns to nothing.
DoRead ==
  /\ pc = "done"
  /\ \/ \E op \in {"list_site_names", "list_hosts", "list_facility_ports", "list_links"} :
          lastRead' = [op |-> op, site |-> NoneStr,
                       value |-> CASE op = "list_site_names" -> ListSiteNames
                                   [] op = "list_hosts" -> ListFacilityPorts(hostsBySite, sites, 1)
                                   [] op = "list_facility_ports" -> ListFacilityPorts(fpsBySite, sites, 1)
                                   [] op = "list_links" -> ListLinks(linksBySite, sites)]
     \/ \E s \in SiteNames :
          lastRead' = [op |-> "get_site", site |-> s,
                       value |-> IF s \in Range(sites) THEN <<s>> ELSE <<>>]
     \/ \E s \in Range(sites),
           op \in {"get_hosts", "get_facility_ports", "get_links", "aggregate_cores",
                   "aggregate_ram", "aggregate_disk", "aggregate_components",
                   "to_summary", "to_dict"} :
          lastRead' = [op |-> op, site |-> s,
                       value |-> CASE op = "get_hosts" -> DictValues(views[s].hosts)
                                   [] op = "get_facility_ports" -> DictValues(views[s].facility_ports)
                                   [] op = "get_links" -> views[s].links
                                   [] op = "aggregate_cores" -> aggregate_cores(views[s].hosts)
                                   [] op = "aggregate_ram" -> aggregate_ram(views[s].hosts)
                                   [] op = "aggregate_disk" -> aggregate_disk(views[s].hosts)
                                   [] op = "aggregate_components" -> aggregate_components(views[s].hosts)
                                   [] op = "to_summary" -> to_summary(s, views[s].hosts)
                                   [] op = "to_dict" -> [k \in DOMAIN views[s].hosts |->
                                                          HostInfoToDict(views[s].hosts[k])]]
  /\ UNCHANGED <<topology, pc, sites, hostsBySite, fpsBySite, linksBySite, views>>
  /\ UNCHANGED <<queryVars, loadVars, fmVars, poaVars, tmVars, smVars>>

NextIndex ==
  \/ DoIndexSites
  \/ DoIndexHosts
  \/ DoIndexFacilityPorts
  \/ DoIndexLinks
  \/ DoBind
  \/ DoRead

SpecIndex == InitIndex /\ [][NextIndex]_vars

(***************************************************************************)
(* Calls on the query layer                                                *)
(***************************************************************************)
InitQuery ==
  /\ QueryIdle
  /\ IndexIdle
  /\ LoadIdle
  /\ FmIdle
  /\ PoaIdle
  /\ TmIdle
  /\ SmIdle

CallPaginate ==
  /\ qCall.op = "none"
  /\ \E data \in RecordLists, limit \in LimitArgs, offset \in OffsetArgs :
       /\ qCall' = [NoCall EXCEPT !.op = "paginate", !.data = data,
                                  !.limit = limit, !.offset = offset]
       /\ qRet' = Returned(Paginate(data, limit, offset))
       /\ qTrace' = <<>>
  /\ UNCHANGED <<indexVars, loadVars, fmVars, poaVars, tmVars, smVars>>

CallApplyFilters ==
  /\ qCall.op = "none"
  /\ \E data \in RecordLists, filters \in FilterArgs :
       /\ qCall' = [NoCall EXCEPT !.op = "apply_filters", !.data = data,
                                  !.filters = filters]
       /\ qRet' = ApplyFilters(data, filters)
       /\ qTrace' = FilterCalls(data, filters)
  /\ UNCHANGED <<indexVars, loadVars, fmVars, poaVars, tmVars, smVars>>

CallQuery ==
  /\ qCall.op = "none"
  /\ \E fetch \in FetchOutcomes, data \in RecordLists, filters \in FilterArgs,
        limit \in LimitArgs, offset \in OffsetArgs :
       /\ fetch # "items" => data = <<>>
       /\ qCall' = [op |-> "query", fetch |-> fetch, data |-> data,
                    filters |-> filters, limit |-> limit, offset |-> offset]
       /\ qRet' = Query(fetch, data, filters, limit, offset)
       /\ qTrace' = QueryCalls(fetch, data, filters)
  /\ UNCHANGED <<indexVars, loadVars, fmVars, poaVars, tmVars, smVars>>

NextQuery ==
  \/ CallPaginate
  \/ CallApplyFilters
  \/ CallQuery

SpecQuery == InitQuery /\ [][NextQuery]_vars

(***************************************************************************)
(* load_site(site)                                                         *)
(***************************************************************************)
InitLoad ==
  /\ rawSite \in RawSites
  /\ lsPc = "start"
  /\ lsIdx = 0
  /\ lsHosts = EmptyDict
  /\ lsSwitches = EmptyDict
  /\ lsRet = NoReturn
  /\ IndexIdle
  /\ QueryIdle
  /\ FmIdle
  /\ PoaIdle
  /\ TmIdle
  /\ SmIdle

\* `for c_name, child in site.children.items()`: reading the children
LsEnterLoop ==
  /\ lsPc = "start"
  /\ lsPc' = IF rawSite.children_ok THEN "loop" ELSE "except"
  /\ UNCHANGED <<rawSite, lsIdx, lsHosts, lsSwitches, lsRet>>
  /\ UNCHANGED <<indexVars, queryVars, fmVars, poaVars, tmVars, smVars>>

\* one iteration of the loop over the children
LsChild ==
  /\ lsPc = "loop"
  /\ lsIdx < Len(rawSite.children)
  /\ LET child == rawSite.children[lsIdx + 1]
         c_name == ChildName(lsIdx + 1)
         h == LoadHost(rawSite.site, c_name, child)
     IN  /\ lsIdx' = lsIdx + 1
         /\ CASE child.type = MissingAttr ->
                   /\ lsPc' = "except"
                   /\ UNCHANGED <<lsHosts, lsSwitches>>
              [] child.type = "Server" /\ h.raised ->
                   /\ lsPc' = "except"
                   /\ UNCHANGED <<lsHosts, lsSwitches>>
              [] child.type = "Server" /\ ~h.raised ->
                   /\ lsHosts' = Put(lsHosts, c_name, h.host)
                   /\ UNCHANGED <<lsPc, lsSwitches>>
              [] child.type = "Switch" ->
                   /\ lsSwitches' = Put(lsSwitches, c_name, LoadSwitch(c_name, child))
                   /\ UNCHANGED <<lsPc, lsHosts>>
              [] OTHER -> UNCHANGED <<lsPc, lsHosts, lsSwitches>>
  /\ UNCHANGED <<rawSite, lsRet>>
  /\ UNCHANGED <<indexVars, queryVars, fmVars, poaVars, tmVars, smVars>>

\* after the loop: SiteV2(...) from location and flags, and the return
LsBuild ==
  /\ lsPc = "loop"
  /\ lsIdx = Len(rawSite.children)
  /\ IF rawSite.meta_ok
     THEN /\ lsRet' = [site |-> SiteV2(rawSite.site, NoneStr),
                       hosts |-> lsHosts, switches |-> lsSwitches]
          /\ lsPc' = "returned"
     ELSE /\ lsPc' = "except"
          /\ UNCHANGED lsRet
  /\ UNCHANGED <<rawSite, lsIdx, lsHosts, lsSwitches>>
  /\ UNCHANGED <<indexVars, queryVars, fmVars, poaVars, tmVars, smVars>>

\* `except Exception`: return SiteV2(name=site.site, state="Error"), hosts, switches
LsExcept ==
  /\ lsPc = "except"
  /\ lsRet' = [site |-> SiteV2(rawSite.site, "Error"),
               hosts |-> lsHosts, switches |-> lsSwitches]
  /\ lsPc' = "returned"
  /\ UNCHANGED <<rawSite, lsIdx, lsHosts, lsSwitches>>
  /\ UNCHANGED <<indexVars, queryVars, fmVars, poaVars, tmVars, smVars>>

NextLoad ==
  \/ LsEnterLoop
  \/ LsChild
  \/ LsBuild
  \/ LsExcept

SpecLoad == InitLoad /\ [][NextLoad]_vars

(***************************************************************************)
(* Calls on one FabricManagerV2 object                                     *)
(***************************************************************************)
InitFm ==
  /\ fmConf \in [auto_refresh : BOOLEAN, has_project : BOOLEAN]
  /\ fmTokens \in {Tokens(id, rt, exp, None) :
                     id \in {NoTok, Tok("id", 0)}, rt \in {NoTok, Tok("rt", 0)},
                     exp \in ExpiryTimes}
  /\ cmIssued = 0
  /\ fmCalls = [t \in FacadeCalls |-> CallIdle]
  /\ IndexIdle
  /\ QueryIdle
  /\ LoadIdle
  /\ PoaIdle
  /\ TmIdle
  /\ SmIdle

\* ensure_valid_id_token or refresh_tokens has ended for call t (whose record
\* is c) with `outcome` (of the pair refresh_tokens returns, the id_token).
\* Called directly, that is the call's result.  Called from a
\* query_* method through _resolve_token, an exception becomes None;
\* resources_summary then resolves the token a second time (its
\* `if not id_token:` branch), its request for the summary raises
\* AttributeError (OrchestratorClient has no such method) and the query
\* returns None.
Finish(t, c, outcome) ==
  fmCalls' = [fmCalls EXCEPT ![t] =
    IF c.op # "query"
    THEN [c EXCEPT !.pc = "done", !.ret = outcome]
    ELSE IF outcome.status # "returned" /\ c.resolves = 1
         THEN [c EXCEPT !.pc = "get_tok", !.resolves = 2]
         ELSE [c EXCEPT !.pc = "done", !.ret = ReturnedTok(NoTok)]]

\* the call is made: ensure_valid_id_token(id_token) or a query_* method,
\* where an explicit id_token is used as it is, or refresh_tokens()
FmCall(t) ==
  /\ fmCalls[t].pc = "idle"
  /\ \E op \in {"ensure_valid_id_token", "query", "refresh_tokens"},
        arg \in {NoTok, EmptyTok, Tok("id", -1)} :
       LET c == [CallIdle EXCEPT !.op = op, !.arg = arg, !.before = fmTokens]
       IN  /\ op = "refresh_tokens" => arg = NoTok
           /\ fmCalls' = [fmCalls EXCEPT ![t] =
             IF op = "refresh_tokens" THEN [c EXCEPT !.pc = "refresh"]
             ELSE IF Truthy(arg)
             THEN [c EXCEPT !.pc = "done",
                            !.ret = IF op = "ensure_valid_id_token"
                                    THEN ReturnedTok(arg) ELSE ReturnedTok(NoTok)]
             ELSE [c EXCEPT !.pc = "get_tok", !.resolves = 1]]
  /\ UNCHANGED <<fmConf, fmTokens, cmIssued>>
  /\ UNCHANGED <<indexVars, queryVars, loadVars, poaVars, tmVars, smVars>>

\* tok = self.get_id_token(); if not tok: raise
FmGetTok(t) ==
  /\ fmCalls[t].pc = "get_tok"
  /\ LET c == fmCalls[t]
         tok == fmTokens.id_token
     IN  IF ~Truthy(tok) THEN Finish(t, c, RaisedFm)
         ELSE fmCalls' = [fmCalls EXCEPT ![t] = [c EXCEPT !.tok = tok, !.pc = "expires"]]
  /\ UNCHANGED <<fmConf, fmTokens, cmIssued>>
  /\ UNCHANGED <<indexVars, queryVars, loadVars, poaVars, tmVars, smVars>>

\* expires_at = self.id_token_expires_at() and the test on it
FmExpires(t) ==
  /\ fmCalls[t].pc = "expires"
  /\ \E decoded \in DecodedExp(fmTokens.id_token) :
       /\ fmTokens.expires_at # None => decoded = None
       /\ LET exp == IdTokenExpiresAt(fmTokens, decoded)
              c == [fmCalls[t] EXCEPT !.exp = exp]
          IN  IF fmConf.auto_refresh
              THEN IF NearExpiry(exp)
                   THEN fmCalls' = [fmCalls EXCEPT ![t] = [c EXCEPT !.pc = "get_rt"]]
                   ELSE Finish(t, c, ReturnedTok(c.tok))
              ELSE IF Expired(exp) THEN Finish(t, c, RaisedFm)
                   ELSE Finish(t, c, ReturnedTok(c.tok))
  /\ UNCHANGED <<fmConf, fmTokens, cmIssued>>
  /\ UNCHANGED <<indexVars, queryVars, loadVars, poaVars, tmVars, smVars>>

\* rtok = self.get_refresh_token(); without one the old token is returned
FmGetRt(t) ==
  /\ fmCalls[t].pc = "get_rt"
  /\ LET c == fmCalls[t]
         rtok == fmTokens.refresh_token
     IN  IF Truthy(rtok)
         THEN fmCalls' = [fmCalls EXCEPT ![t] = [c EXCEPT !.rtok = rtok, !.pc = "refresh"]]
         ELSE Finish(t, c, ReturnedTok(c.tok))
  /\ UNCHANGED <<fmConf, fmTokens, cmIssued>>
  /\ UNCHANGED <<indexVars, queryVars, loadVars, poaVars, tmVars, smVars>>

\* refresh_tokens(refresh_token) up to the request it sends:
\* rtok = refresh_token or self.get_refresh_token()
FmRefreshCall(t) ==
  /\ fmCalls[t].pc = "refresh"
  /\ LET c == fmCalls[t]
         rtok == IF Truthy(c.rtok) THEN c.rtok ELSE fmTokens.refresh_token
     IN  IF ~Truthy(rtok) \/ ~fmConf.has_project THEN Finish(t, c, RaisedFm)
         ELSE fmCalls' = [fmCalls EXCEPT ![t] =
                [c EXCEPT !.rtok = rtok, !.refreshes = @ + 1, !.pc = "await"]]
  /\ UNCHANGED <<fmConf, fmTokens, cmIssued>>
  /\ UNCHANGED <<indexVars, queryVars, loadVars, poaVars, tmVars, smVars>>

\* self.credmgr.refresh(...) answers
FmRefreshReply(t) ==
  /\ fmCalls[t].pc = "await"
  /\ \E r \in {"raises", "empty", "tokens"} :
       LET c == fmCalls[t]
       IN  IF r = "tokens"
           THEN /\ cmIssued < MaxIssued
                /\ cmIssued' = cmIssued + 1
                /\ fmCalls' = [fmCalls EXCEPT ![t] =
                     [c EXCEPT !.reply = Issued(cmIssued + 1), !.pc = "store_id"]]
           ELSE /\ Finish(t, c, RaisedFm)
                /\ UNCHANGED cmIssued
  /\ UNCHANGED <<fmConf, fmTokens>>
  /\ UNCHANGED <<indexVars, queryVars, loadVars, poaVars, tmVars, smVars>>

\* self._tokens["id_token"] = first_token.get("id_token")
FmStoreId(t) ==
  /\ fmCalls[t].pc = "store_id"
  /\ fmTokens' = [fmTokens EXCEPT !.id_token = fmCalls[t].reply.id_token]
  /\ fmCalls' = [fmCalls EXCEPT ![t].pc = "store_rt"]
  /\ UNCHANGED <<fmConf, cmIssued>>
  /\ UNCHANGED <<indexVars, queryVars, loadVars, poaVars, tmVars, smVars>>

\* an exception between the first and the second assignment
FmStoreRtRaises(t) ==
  /\ fmCalls[t].pc = "store_rt"
  /\ Finish(t, fmCalls[t], RaisedFm)
  /\ UNCHANGED <<fmConf, fmTokens, cmIssued>>
  /\ UNCHANGED <<indexVars, queryVars, loadVars, poaVars, tmVars, smVars>>

\* self._tokens["refresh_token"] = first_token.get("refresh_token")
FmStoreRt(t) ==
  /\ fmCalls[t].pc = "store_rt"
  /\ fmTokens' = [fmTokens EXCEPT !.refresh_token = fmCalls[t].reply.refresh_token]
  /\ fmCalls' = [fmCalls EXCEPT ![t].pc = "store_exp"]
  /\ UNCHANGED <<fmConf, cmIssued>>
  /\ UNCHANGED <<indexVars, queryVars, loadVars, poaVars, tmVars, smVars>>

\* self._tokens["expires_at"] = ...; self._tokens["created_at"] = ...
FmStoreTimes(t) ==
  /\ fmCalls[t].pc = "store_exp"
  /\ fmTokens' = [fmTokens EXCEPT !.expires_at = fmCalls[t].reply.expires_at,
                                  !.created_at = fmCalls[t].reply.created_at]
  /\ fmCalls' = [fmCalls EXCEPT ![t].pc = "return_stored"]
  /\ UNCHANGED <<fmConf, cmIssued>>
  /\ UNCHANGED <<indexVars, queryVars, loadVars, poaVars, tmVars, smVars>>

\* refresh_tokens returns; ensure_valid_id_token returns the old local `tok`
FmReturnOld(t) ==
  /\ fmCalls[t].pc = "return_stored"
  /\ Finish(t, fmCalls[t], ReturnedTok(fmCalls[t].tok))
  /\ UNCHANGED <<fmConf, fmTokens, cmIssued>>
  /\ UNCHANGED <<indexVars, queryVars, loadVars, poaVars, tmVars, smVars>>

\* refresh_tokens returns; return self.get_id_token()
FmReturnStored(t) ==
  /\ fmCalls[t].pc = "return_stored"
  /\ Finish(t, fmCalls[t], ReturnedTok(fmTokens.id_token))
  /\ UNCHANGED <<fmConf, fmTokens, cmIssued>>
  /\ UNCHANGED <<indexVars, queryVars, loadVars, poaVars, tmVars, smVars>>

FmStep(t) ==
  \/ FmCall(t)
  \/ FmGetTok(t)
  \/ FmExpires(t)
  \/ FmGetRt(t)
  \/ FmRefreshCall(t)
  \/ FmRefreshReply(t)
  \/ FmStoreId(t)
  \/ FmStoreRt(t)
  \/ FmStoreTimes(t)
  \/ FmReturnStored(t)

SpecToken == InitFm /\ [][FmStep(1)]_vars

\* two calls on the same object, their steps interleaved
NextFacade == \E t \in FacadeCalls : FmStep(t)

SpecFacade == InitFm /\ [][NextFacade]_vars

(***************************************************************************)
(* FabricManagerV2.poa(sliver_id, operation, ...)                          *)
(***************************************************************************)
InitPoa ==
  /\ poaCall \in PoaCalls
  /\ poaPc = "start"
  /\ poaAttempt = 0
  /\ poaLatest = ""
  /\ poaRet = [status |-> "none", value |-> ""]
  /\ IndexIdle
  /\ QueryIdle
  /\ LoadIdle
  /\ FmIdle
  /\ TmIdle
  /\ SmIdle

\* token, submission, poa_id; `if not wait or not poa_id: return submission`
PoaSubmit ==
  /\ poaPc = "start"
  /\ IF poaCall.sub = "raises"
     THEN /\ poaRet' = PoaRaised("Exception")
          /\ poaPc' = "done"
          /\ UNCHANGED poaLatest
     ELSE IF ~poaCall.wait \/ PoaIdOf(poaCall.fmt, poaCall.sub) = NoneStr
     THEN /\ poaRet' = PoaReturned("submission")
          /\ poaPc' = "done"
          /\ UNCHANGED poaLatest
     ELSE /\ poaLatest' = "submission"
          /\ poaPc' = "loop"
          /\ UNCHANGED poaRet
  /\ UNCHANGED <<poaCall, poaAttempt>>
  /\ UNCHANGED <<indexVars, queryVars, loadVars, fmVars, tmVars, smVars>>

\* one round of `while attempt < retry`: a poll, then return, raise or sleep
PoaPoll ==
  /\ poaPc = "loop"
  /\ poaAttempt < poaCall.retry
  /\ poaAttempt' = poaAttempt + 1
  /\ \E o \in PollOutcomes :
       IF o = "raises"
       THEN /\ poaRet' = PoaRaised("OrchestratorError")
            /\ poaPc' = "done"
            /\ UNCHANGED poaLatest
       ELSE /\ poaLatest' = o
            /\ IF o # "empty" /\ StateOf(o) \in {"Success", "Failed"}
               THEN /\ poaPc' = "done"
                    /\ poaRet' = IF StateOf(o) = "Failed" THEN PoaRaised("ValueError")
                                 ELSE IF o = "Success_info" THEN PoaReturned("info")
                                 ELSE PoaReturned("entry")
               ELSE UNCHANGED <<poaPc, poaRet>>
  /\ UNCHANGED poaCall
  /\ UNCHANGED <<indexVars, queryVars, loadVars, fmVars, tmVars, smVars>>

\* the loop ends without a terminal state: return latest
PoaExhausted ==
  /\ poaPc = "loop"
  /\ ~(poaAttempt < poaCall.retry)
  /\ poaRet' = PoaReturned(poaLatest)
  /\ poaPc' = "done"
  /\ UNCHANGED <<poaCall, poaAttempt, poaLatest>>
  /\ UNCHANGED <<indexVars, queryVars, loadVars, fmVars, tmVars, smVars>>

NextPoa ==
  \/ PoaSubmit
  \/ PoaPoll
  \/ PoaExhausted

SpecPoa == InitPoa /\ [][NextPoa]_vars

(***************************************************************************)
(* Threads calling one TokenManagerV2 object                               *)
(***************************************************************************)
InitTm ==
  /\ tmPair \in {TokenPair(id, rt, None) :
                   id \in {NoTok, Tok("id", 0)}, rt \in {NoTok, Tok("rt", 0)}}
  /\ tmLock = 0
  /\ tmThreads = [t \in TmThreadIds |-> TmThreadIdle]
  /\ IndexIdle
  /\ QueryIdle
  /\ LoadIdle
  /\ FmIdle
  /\ PoaIdle
  /\ SmIdle

\* thread t calls set_tokens, ensure_valid_id_token or maybe_refresh_now
TmCall(t) ==
  /\ tmThreads[t].pc = "idle"
  /\ \E op \in {"set_tokens", "ensure_valid_id_token", "maybe_refresh_now"}, allow \in BOOLEAN :
       /\ op # "ensure_valid_id_token" => allow
       /\ tmThreads' = [tmThreads EXCEPT ![t] =
            [TmThreadIdle EXCEPT !.pc = "acquire", !.op = op, !.allow_refresh = allow]]
  /\ UNCHANGED <<tmPair, tmLock>>
  /\ UNCHANGED <<indexVars, queryVars, loadVars, fmVars, poaVars, smVars>>

\* with self._lock:
TmAcquire(t) ==
  /\ tmThreads[t].pc = "acquire"
  /\ CanAcquire(t)
  /\ tmLock' = t
  /\ tmThreads' = [tmThreads EXCEPT ![t].pc = "locked"]
  /\ UNCHANGED tmPair
  /\ UNCHANGED <<indexVars, queryVars, loadVars, fmVars, poaVars, smVars>>

\* thread t leaves the with block with `outcome`
TmLeave(t, th, outcome) ==
  /\ tmThreads' = [tmThreads EXCEPT ![t] = [th EXCEPT !.pc = "done", !.ret = outcome]]
  /\ tmLock' = IF tmLock = t THEN 0 ELSE tmLock

\* set_tokens: self._pair = TokenPair(id_token, refresh_token, created_at)
TmSetTokens(t) ==
  /\ tmThreads[t].pc = "locked"
  /\ tmThreads[t].op = "set_tokens"
  /\ tmPair' = TokenPair(Tok("cid", t), Tok("crt", t), None)
  /\ TmLeave(t, tmThreads[t], ReturnedTok(NoTok))
  /\ UNCHANGED <<indexVars, queryVars, loadVars, fmVars, poaVars, smVars>>

\* ensure_valid_id_token up to its return or its call of _refresh_locked; exp
\* is the claim _get_exp reads from the stored id_token, in seconds from now,
\* None when the token carries none
TmEnsure(t) ==
  /\ tmThreads[t].pc = "locked"
  /\ tmThreads[t].op = "ensure_valid_id_token"
  /\ IF ~Truthy(tmPair.id_token)
     THEN TmLeave(t, tmThreads[t], [status |-> "ValueError", value |-> NoTok])
     ELSE \E exp \in {None, 200, 300, 400} :
            LET th == [tmThreads[t] EXCEPT !.exp = exp]
                due == exp = None \/ ExpiringSoon(exp)
            IN  IF due /\ th.allow_refresh /\ Truthy(tmPair.refresh_token)
                THEN /\ tmThreads' = [tmThreads EXCEPT ![t] = [th EXCEPT !.pc = "post"]]
                     /\ UNCHANGED tmLock
                ELSE TmLeave(t, th, ReturnedTok(tmPair.id_token))
  /\ UNCHANGED tmPair
  /\ UNCHANGED <<indexVars, queryVars, loadVars, fmVars, poaVars, smVars>>

\* maybe_refresh_now up to its return or its call of _refresh_locked
TmMaybeRefresh(t) ==
  /\ tmThreads[t].pc = "locked"
  /\ tmThreads[t].op = "maybe_refresh_now"
  /\ IF ~Truthy(tmPair.refresh_token)
     THEN TmLeave(t, tmThreads[t], ReturnedTok(Tok("bool", 0)))
     ELSE /\ tmThreads' = [tmThreads EXCEPT ![t].pc = "post"]
          /\ UNCHANGED tmLock
  /\ UNCHANGED tmPair
  /\ UNCHANGED <<indexVars, queryVars, loadVars, fmVars, poaVars, smVars>>

\* _refresh_locked: body = {"refresh_token": self._pair.refresh_token} and
\* requests.post(...) is sent
TmPost(t) ==
  /\ tmThreads[t].pc = "post"
  /\ tmThreads' = [tmThreads EXCEPT ![t].body = tmPair.refresh_token,
                                    ![t].pc = "inflight"]
  /\ UNCHANGED <<tmPair, tmLock>>
  /\ UNCHANGED <<indexVars, queryVars, loadVars, fmVars, poaVars, smVars>>

\* the response arrives: a status other than 200, which raises RuntimeError,
\* or a token datum with or without a new refresh_token, or a body that holds
\* no token at all (_unwrap_paginated_first gives {} or a dict without the keys)
TmResponse(t) ==
  /\ tmThreads[t].pc = "inflight"
  /\ \E r \in {"error", "tokens", "tokens_no_rt", "empty"} :
       IF r = "error"
       THEN TmLeave(t, [tmThreads[t] EXCEPT !.resp = r], [status |-> "RuntimeError", value |-> NoTok])
       ELSE /\ tmThreads' = [tmThreads EXCEPT ![t].resp = r, ![t].pc = "store"]
            /\ UNCHANGED tmLock
  /\ UNCHANGED tmPair
  /\ UNCHANGED <<indexVars, queryVars, loadVars, fmVars, poaVars, smVars>>

\* self._pair = TokenPair(new_id, new_rt, created_at); the caller returns
TmStore(t) ==
  /\ tmThreads[t].pc = "store"
  /\ LET new == RefreshedPair(TmDatum(t, tmThreads[t].resp), tmPair)
     IN  /\ tmPair' = new
         /\ TmLeave(t, tmThreads[t],
               IF tmThreads[t].op = "maybe_refresh_now" THEN ReturnedTok(Tok("bool", 1))
               ELSE ReturnedTok(new.id_token))
  /\ UNCHANGED <<indexVars, queryVars, loadVars, fmVars, poaVars, smVars>>

NextTm ==
  \E t \in TmThreadIds :
    \/ TmCall(t)
    \/ TmAcquire(t)
    \/ TmSetTokens(t)
    \/ TmEnsure(t)
    \/ TmMaybeRefresh(t)
    \/ TmPost(t)
    \/ TmResponse(t)
    \/ TmStore(t)

SpecTm == InitTm /\ [][NextTm]_vars

(***************************************************************************)
(* Calls on a SliceManager, from the API and from `resources query`        *)
(***************************************************************************)
\* The parameters and environment of SliceManager(...): the hosts and the
\* token location are given or not, a project id or name is given or not,
\* the id_token in the token file names a project or not. The CLI constructs
\* it with the defaults initialize=True, auto_refresh=True.
InitSm ==
  /\ smConf \in [caller : {"api", "cli"}, hosts : BOOLEAN, project : BOOLEAN,
                 token_project : BOOLEAN, initialize : BOOLEAN, auto_refresh : BOOLEAN]
  /\ smConf.caller = "cli" => smConf.initialize /\ smConf.auto_refresh
  /\ smPc = "new"
  /\ smInitialized = FALSE
  /\ smTokens = SmTokens(NoTok, None)
  /\ smFile \in {[exists |-> FALSE, tokens |-> SmTokens(NoTok, None)]}
                \cup {[exists |-> TRUE, tokens |-> SmTokens(id, age)] :
                        id \in {NoTok, Tok("id", 0)}, age \in {None, 10, 30, 60, 180, 200}}
  /\ smLoads = 0
  /\ smLast = SmNoCall
  /\ IndexIdle
  /\ QueryIdle
  /\ LoadIdle
  /\ FmIdle
  /\ PoaIdle
  /\ TmIdle

\* SliceManager.__init__
SmConstruct ==
  /\ smPc = "new"
  /\ \E cm \in {"ok", "fails"} :
       LET det == LoadTokens(smTokens, smFile, FALSE, cm)
           known == smConf.project \/ (det.tokens.id_token # NoTok /\ smConf.token_project)
           t1 == IF smConf.project THEN smTokens ELSE det.tokens
           ini == LoadTokens(t1, smFile, smConf.auto_refresh, cm)
           call == [SmNoCall EXCEPT !.op = "__init__"]
       IN  IF ~smConf.hosts \/ ~known
           THEN /\ smPc' = "failed"
                /\ smTokens' = IF smConf.hosts THEN t1 ELSE smTokens
                /\ smLast' = [call EXCEPT !.status = "raised", !.error = "Invalid initialization parameters"]
                /\ UNCHANGED <<smInitialized, smFile, smLoads>>
           ELSE IF ~smConf.initialize
           THEN /\ smPc' = "ready"
                /\ smTokens' = t1
                /\ smLast' = [call EXCEPT !.status = "returned"]
                /\ UNCHANGED <<smInitialized, smFile, smLoads>>
           ELSE /\ smPc' = IF ini.raised THEN "failed" ELSE "ready"
                /\ smInitialized' = ~ini.raised
                /\ smTokens' = ini.tokens
                /\ smFile' = ini.file
                /\ smLoads' = 1
                /\ smLast' = [call EXCEPT !.loaded = TRUE, !.requests = ini.requests,
                                          !.status = IF ini.raised THEN "raised" ELSE "returned",
                                          !.error = IF ini.raised THEN "refresh failed" ELSE ""]
  /\ UNCHANGED smConf
  /\ UNCHANGED <<indexVars, queryVars, loadVars, fmVars, poaVars, tmVars>>

\* SliceManager.initialize
SmInitialize ==
  /\ smPc = "ready"
  /\ smConf.caller = "api"
  /\ smInitialized \/ smLoads < MaxLoads
  /\ \E cm \in {"ok", "fails"} :
       LET ini == LoadTokens(smTokens, smFile, smConf.auto_refresh, cm)
           call == [SmNoCall EXCEPT !.op = "initialize", !.initialized = smInitialized,
                                    !.tokens = smTokens]
       IN  IF smInitialized
           THEN /\ smLast' = [call EXCEPT !.status = "returned"]
                /\ UNCHANGED <<smInitialized, smTokens, smFile, smLoads>>
           ELSE /\ smInitialized' = ~ini.raised
                /\ smTokens' = ini.tokens
                /\ smFile' = ini.file
                /\ smLoads' = smLoads + 1
                /\ smLast' = [call EXCEPT !.loaded = TRUE, !.requests = ini.requests,
                                          !.status = IF ini.raised THEN "raised" ELSE "returned",
                                          !.error = IF ini.raised THEN "refresh failed" ELSE ""]
  /\ UNCHANGED <<smConf, smPc>>
  /\ UNCHANGED <<indexVars, queryVars, loadVars, fmVars, poaVars, tmVars>>

\* One operation of the SliceManager: create, slivers, resources and poa go
\* to the orchestrator and answer (Status, value); get_ssh_keys,
\* get_user_info and get_project_info go to the Core API and raise
\* SliceManagerException on failure; get_metrics_overview goes to the
\* orchestrator and asks __should_renew only when `authenticated`. create
\* rejects invalid arguments first. `svc` is what the service answers.
SmOperation ==
  /\ smPc = "ready"
  /\ smLast.exit = None
  /\ \E op \in {"create", "slivers", "resources", "poa", "get_ssh_keys", "get_user_info",
               "get_project_info", "get_metrics_overview"},
        valid \in BOOLEAN, authenticated \in BOOLEAN,
        cm \in {"ok", "fails"}, svc \in {"ok", "failure", "raises"} :
       LET core == op \in {"get_ssh_keys", "get_user_info", "get_project_info"}
           failed == IF core THEN "raised" ELSE "FAILURE"
           asks == op # "get_metrics_overview" \/ authenticated
           renew == IF asks THEN ShouldRenew(smInitialized, smTokens) ELSE ""
           load == LoadTokens(smTokens, smFile, smConf.auto_refresh, cm)
           call == [SmNoCall EXCEPT !.op = op, !.valid = valid, !.authenticated = authenticated,
                                    !.initialized = smInitialized, !.tokens = smTokens,
                                    !.renew = renew]
           sent == (IF renew = "True" THEN load.requests ELSE {})
                     \cup {IF core THEN "core" ELSE "oc"}
       IN  /\ smConf.caller = "cli" => op = "resources" /\ smLast.op = "__init__"
           /\ op # "create" => valid
           /\ op # "get_metrics_overview" => ~authenticated
           /\ IF ~valid
              THEN /\ smLast' = [call EXCEPT !.renew = "", !.status = "INVALID_ARGUMENTS",
                                              !.error = "Invalid arguments"]
                   /\ UNCHANGED <<smTokens, smFile>>
              ELSE IF renew = "not initialized"
              THEN /\ smLast' = [call EXCEPT !.status = failed,
                                              !.error = "Slice Manager has not been initialized!"]
                   /\ UNCHANGED <<smTokens, smFile>>
              ELSE IF renew = "TypeError"
              THEN /\ smLast' = [call EXCEPT !.status = failed, !.error = "TypeError"]
                   /\ UNCHANGED <<smTokens, smFile>>
              ELSE IF renew = "True" /\ load.raised
              THEN /\ smLast' = [call EXCEPT !.status = failed, !.error = "refresh failed",
                                              !.requests = load.requests]
                   /\ smTokens' = load.tokens
                   /\ smFile' = load.file
              ELSE /\ smLast' = [call EXCEPT !.requests = sent,
                                   !.status = IF svc = "ok" THEN (IF core THEN "returned" ELSE "OK")
                                              ELSE failed,
                                   !.error = IF svc = "ok" THEN "" ELSE "service"]
                   /\ smTokens' = IF renew = "True" THEN load.tokens ELSE smTokens
                   /\ smFile' = IF renew = "True" THEN load.file ELSE smFile
  /\ UNCHANGED <<smConf, smPc, smInitialized, smLoads>>
  /\ UNCHANGED <<indexVars, queryVars, loadVars, fmVars, poaVars, tmVars>>

\* The end of the `resources query` callback: an exception of the
\* constructor becomes a ClickException (exit code 1); the answer of
\* resources() is echoed, the response or the error message alike, and the
\* command returns (exit code 0).
CliExit ==
  /\ smConf.caller = "cli"
  /\ smLast.exit = None
  /\ \/ smPc = "failed"
     \/ smPc = "ready" /\ smLast.op = "resources"
  /\ smLast' = [smLast EXCEPT !.exit = IF smPc = "failed" THEN 1 ELSE 0]
  /\ UNCHANGED <<smConf, smPc, smInitialized, smTokens, smFile, smLoads>>
  /\ UNCHANGED <<indexVars, queryVars, loadVars, fmVars, poaVars, tmVars>>

NextSm ==
  \/ SmConstruct
  \/ SmInitialize
  \/ SmOperation
  \/ CliExit

SpecSm == InitSm /\ [][NextSm]_vars

(***************************************************************************)
(* Properties of index construction (checked under SpecIndex)              *)
(***************************************************************************)
Finished == pc \in {"done", "raised"}

\* the number of entries of list_links() that are the record of raw link l
TimesListed(l) ==
  LET out == ListLinks(linksBySite, sites)
  IN  Cardinality({i \in DOMAIN out :
                     out[i].name = l.name /\ out[i].endpoints = LinkEps(l)})

TwoSiteLinks ==
  {l \in Range(topology.links) : Cardinality(SitesSeen(l, sites)) >= 2}

\* C2: once index construction is over, a link whose endpoints resolve to two
\* different indexed sites is stored in the bucket of both sites and is
\* listed exactly once by list_links().
LinkListedOnce ==
  Finished =>
    \A l \in TwoSiteLinks :
      /\ pc = "done"
      /\ \A s \in SitesSeen(l, sites) :
           \E i \in DOMAIN linksBySite[s] : linksBySite[s][i].name = l.name
      /\ TimesListed(l) = 1

\* C12: for every raw link (with an endpoint at an indexed site) the indexed
\* link record has exactly one endpoint per raw interface, in order: an
\* endpoint without a known site is kept, with site None, and never dropped.
LinkEndpointsKept ==
  Finished =>
    \A l \in Range(topology.links) : \A s \in SitesSeen(l, sites) :
      /\ pc = "done"
      /\ \E i \in DOMAIN linksBySite[s] :
           LET r == linksBySite[s][i]
           IN  /\ r.name = l.name
               /\ Len(r.endpoints) = Len(l.interfaces)
               /\ \A k \in DOMAIN l.interfaces :
                    /\ r.endpoints[k].node = l.interfaces[k].node
                    /\ r.endpoints[k].port = l.interfaces[k].name
                    /\ r.endpoints[k].site = l.interfaces[k].site

\* the facility-port interfaces of the raw links that sit at indexed site s
FacilityInterfaces(s) ==
  {<<i, k>> \in (DOMAIN topology.links) \X (1..2) :
     /\ k \in DOMAIN topology.links[i].interfaces
     /\ topology.links[i].interfaces[k].class_kind = "FacilityPort"
     /\ topology.links[i].interfaces[k].site = s
     /\ topology.links[i].interfaces[k].name # NoneStr}

\* the entries of list_facility_ports() that belong to site s
EntriesAt(s) ==
  LET out == ListFacilityPorts(fpsBySite, sites, 1)
  IN  {i \in DOMAIN out : out[i].site = s}

\* C17: two interfaces of the same facility (the same facility name at the
\* same site) are indexed as two distinct facility-port entries:
\* list_facility_ports() has one entry per facility interface and never
\* collapses entries that share a facility name.
FacilityInterfacesDistinct ==
  pc \in {"fps", "links", "done", "raised"} =>
    \A s \in Range(sites) :
      Cardinality(EntriesAt(s)) = Cardinality(FacilityInterfaces(s))

RECURSIVE TotalOver(_, _, _)
TotalOver(K, hosts, f) ==
  IF K = {} THEN 0
  ELSE LET k == CHOOSE x \in K : TRUE
       IN  (IF hosts[k][f] = None THEN 0 ELSE hosts[k][f]) + TotalOver(K \ {k}, hosts, f)

RECURSIVE CompTotalOver(_, _, _, _)
CompTotalOver(K, hosts, m, f) ==
  IF K = {} THEN 0
  ELSE LET k == CHOOSE x \in K : TRUE
           v == hosts[k].components[m][f]
       IN  (IF v = None THEN 0 ELSE v) + CompTotalOver(K \ {k}, hosts, m, f)

HostsWith(hosts, m) == {k \in DOMAIN hosts : m \in DOMAIN hosts[k].components}

ModelNames == {"GPU-Tesla T4", "NIC"}

\* C3: for every indexed site, aggregate_cores / aggregate_ram / aggregate_disk
\* return the sums of the capacity and of the allocated column over exactly the
\* hosts of the site's host view (an absent value counting 0), and
\* aggregate_components has, for every model some host carries, the sums over
\* the hosts that carry it, and no entry for any other model.
AggregationCorrect ==
  pc = "done" =>
    \A s \in DOMAIN views :
      LET hosts == views[s].hosts
          K == DOMAIN hosts
          comps == aggregate_components(hosts)
      IN  /\ aggregate_cores(hosts) =
               <<TotalOver(K, hosts, "cores_capacity"), TotalOver(K, hosts, "cores_allocated")>>
          /\ aggregate_ram(hosts) =
               <<TotalOver(K, hosts, "ram_capacity"), TotalOver(K, hosts, "ram_allocated")>>
          /\ aggregate_disk(hosts) =
               <<TotalOver(K, hosts, "disk_capacity"), TotalOver(K, hosts, "disk_allocated")>>
          /\ DOMAIN comps = {m \in ModelNames : HostsWith(hosts, m) # {}}
          /\ \A m \in DOMAIN comps :
               /\ comps[m].capacity = CompTotalOver(HostsWith(hosts, m), hosts, m, "capacity")
               /\ comps[m].allocated = CompTotalOver(HostsWith(hosts, m), hosts, m, "allocated")

\* a site with two hosts whose cores, and whose GPU components, add up
AggregationWitness ==
  /\ pc = "done"
  /\ \E s \in DOMAIN views :
       /\ Cardinality(DOMAIN views[s].hosts) = 2
       /\ aggregate_cores(views[s].hosts) = <<3, 4>>
       /\ "GPU-Tesla T4" \in DOMAIN aggregate_components(views[s].hosts)
       /\ aggregate_components(views[s].hosts)["GPU-Tesla T4"].capacity = 3

\* avail is capacity - allocated clamped at zero (where both are present)
Clamped(avail, c, a) ==
  /\ avail >= 0
  /\ (c # None /\ a # None) => avail = (IF c > a THEN c - a ELSE 0)

\* C4: every *_available value of a host's to_dict, of a site's to_summary and
\* of a per-model entry of aggregate_components is max(0, capacity - allocated)
\* of the capacity/allocated pair emitted beside it, and is never negative,
\* also when allocated exceeds capacity.
AvailabilityClamped ==
  pc = "done" =>
    \A s \in DOMAIN views :
      LET hosts == views[s].hosts
          sm == to_summary(s, hosts)
      IN  /\ \A k \in DOMAIN hosts :
               LET d == HostInfoToDict(hosts[k])
               IN  /\ Clamped(d.cores_available, d.cores_capacity, d.cores_allocated)
                   /\ Clamped(d.ram_available, d.ram_capacity, d.ram_allocated)
                   /\ Clamped(d.disk_available, d.disk_capacity, d.disk_allocated)
          /\ Clamped(sm.cores_available, sm.cores_capacity, sm.cores_allocated)
          /\ Clamped(sm.ram_available, sm.ram_capacity, sm.ram_allocated)
          /\ Clamped(sm.disk_available, sm.disk_capacity, sm.disk_allocated)
          /\ \A m \in DOMAIN sm.components :
               Clamped(sm.components[m].available,
                       sm.components[m].capacity, sm.components[m].allocated)

\* a host, its site and a component aggregate with allocated > capacity, all
\* reported with 0 available; and another host with cores to spare
AvailabilityWitness ==
  /\ pc = "done"
  /\ \E s \in DOMAIN views :
       LET hosts == views[s].hosts
           sm == to_summary(s, hosts)
       IN  /\ \E k \in DOMAIN hosts :
                /\ hosts[k].cores_allocated > hosts[k].cores_capacity
                /\ hosts[k].cores_capacity # None
                /\ HostInfoToDict(hosts[k]).cores_available = 0
           /\ \E k \in DOMAIN hosts : HostInfoToDict(hosts[k]).cores_available = 1
           /\ sm.cores_allocated > sm.cores_capacity /\ sm.cores_available = 0
           /\ \E m \in DOMAIN sm.components :
                /\ sm.components[m].allocated > sm.components[m].capacity
                /\ sm.components[m].available = 0

\* C8: building the index over a topology object that is present never
\* raises, whatever sites, nodes and links it holds.
IndexingNeverRaises == topology.kind = "object" => pc # "raised"

\* C9: index construction over an absent topology does not end normally (the
\* caller gets a failure, not an empty index).
AbsentTopologyFails == topology.kind = "None" => pc # "done"

(***************************************************************************)
(* Properties of the filter and pagination engine (under SpecQuery)        *)
(***************************************************************************)
\* C1: _paginate(data, limit=k, offset=o) with k >= 0 and o >= 0 returns
\* min(k, max(0, len(data) - o)) records; limit=0, offset=0 returns [], and
\* limit=None, offset=len(data) returns [].
PaginateLength ==
  qCall.op = "paginate" =>
    LET n == Len(qCall.data)
        k == qCall.limit
        o == qCall.offset
        left == IF n - o > 0 THEN n - o ELSE 0
    IN  /\ qRet.status = "list"
        /\ (k # None /\ k >= 0 /\ o # None /\ o >= 0) =>
             Len(qRet.value) = (IF k < left THEN k ELSE left)
        /\ (k = 0 /\ o = 0) => qRet.value = <<>>
        /\ (k = None /\ o = n) => qRet.value = <<>>

\* a page that is cut by the limit, and one that is cut by the end of the list
PaginateWitness ==
  /\ qCall.op = "paginate"
  /\ Len(qCall.data) = 3
  /\ \/ qCall.limit = 1 /\ qCall.offset = 1 /\ Len(qRet.value) = 1
     \/ qCall.limit = 3 /\ qCall.offset = 2 /\ Len(qRet.value) = 1

\* the elements lo+1 .. hi of a list (nothing when hi <= lo)
Between(data, lo, hi) ==
  IF hi <= lo THEN <<>> ELSE SubSeq(data, lo + 1, hi)

\* C15: _paginate treats a negative offset as 0, returns everything from
\* the offset to the end of the list when limit is None, and returns an empty
\* list, without raising, when limit is negative.
PaginateEdgeArguments ==
  qCall.op = "paginate" =>
    LET n == Len(qCall.data)
        k == qCall.limit
        o == qCall.offset
        upto == IF k = None THEN n ELSE IF k < 0 THEN 0 ELSE IF k < n THEN k ELSE n
    IN  /\ qRet.status = "list"
        /\ (o # None /\ o < 0) => qRet.value = Between(qCall.data, 0, upto)
        /\ (k = None /\ o # None /\ o >= 0) =>
             qRet.value = Between(qCall.data, IF o < n THEN o ELSE n, n)
        /\ (k # None /\ k < 0) => qRet.value = <<>>

\* a negative offset on a list of three with no limit returns all three, an
\* offset of 1 with no limit returns the last two, and a negative limit
\* returns nothing of a list that has elements after the offset
PaginateEdgeWitness ==
  /\ qCall.op = "paginate"
  /\ Len(qCall.data) = 3
  /\ \/ qCall.offset = -1 /\ qCall.limit = None /\ Len(qRet.value) = 3
     \/ qCall.offset = 1 /\ qCall.limit = None /\ Len(qRet.value) = 2
     \/ qCall.offset = 0 /\ qCall.limit = -1 /\ qRet.value = <<>>

\* the positions of data whose record the callable accepts
Accepted(data, fn) == {i \in 1..Len(data) : CallFilter(fn, data[i])}

\* how often filters(r) was called on the record at position i
TimesEvaluated(i) ==
  Cardinality({t \in DOMAIN qTrace : qTrace[t].ev = "filter" /\ qTrace[t].arg = i})

\* C16: with a callable filter _apply_filters returns exactly the records for
\* which the callable returns true, in their original relative order, each
\* record evaluated once and passed through unmodified; with filters None it
\* returns all records in their original order.
FilterSelectsInOrder ==
  qCall.op = "apply_filters" =>
    LET data == qCall.data
        keep == Accepted(data, qCall.filters.fn)
    IN  /\ qCall.filters.kind = "None" =>
             /\ qRet = [status |-> "list", value |-> data]
             /\ qTrace = <<>>
        /\ qCall.filters.kind = "callable" =>
             /\ qRet.status = "list"
             /\ Len(qRet.value) = Cardinality(keep)
             /\ \A i \in keep :
                  qRet.value[Cardinality({j \in keep : j <= i})] = data[i]
             /\ \A i \in 1..Len(data) : TimesEvaluated(i) = 1

\* a callable that rejects the record between two records it accepts
FilterSelectsWitness ==
  /\ qCall.op = "apply_filters"
  /\ qCall.filters = Callable("site_is_UCSD")
  /\ Len(qCall.data) = 3
  /\ qCall.data[1].site = "UCSD" /\ qCall.data[2].site = "STAR" /\ qCall.data[3].site = "UCSD"
  /\ Len(qRet.value) = 2
  /\ Len(qTrace) = 3

\* the requests for a summary snapshot the call has sent
Fetches == {t \in DOMAIN qTrace : qTrace[t].ev = "fetch"}

\* C13: each query_* invocation fetches its snapshot exactly once (and the
\* result is computed from the snapshot fetched during that call).
QueryFetchesOnce ==
  qCall.op = "query" => Cardinality(Fetches) = 1

RecordFields == {"name", "site"}

FilterOperators ==
  {"eq", "ne", "lt", "lte", "gt", "gte", "in", "contains", "icontains", "regex", "any", "all"}

UnknownField(c) == c.field \notin RecordFields

UnknownOperator(c) == c.op \notin FilterOperators

\* C5: applying a structured filter spec that names an unknown field or an
\* unknown operator never raises, and selects no record that lacks the field.
FilterConservative ==
  (/\ qCall.op = "apply_filters"
   /\ qCall.filters.kind = "mapping"
   /\ \E i \in DOMAIN qCall.filters.spec :
        UnknownField(qCall.filters.spec[i]) \/ UnknownOperator(qCall.filters.spec[i]))
  => /\ qRet.status = "list"
     /\ \A i \in DOMAIN qCall.filters.spec, j \in DOMAIN qRet.value :
          qCall.filters.spec[i].field \in DOMAIN qRet.value[j]

\* C6: {or: [{site: {eq: A}}, {site: {eq: B}}]} applied to a list of host
\* records returns exactly the records whose site is A or B.
OrFilterUnion ==
  (/\ qCall.op = "apply_filters"
   /\ qCall.filters.kind = "mapping"
   /\ qCall.filters.fn = "or")
  => /\ qRet.status = "list"
     /\ qRet.value =
          SelectSeq(qCall.data,
                    LAMBDA r : r.site \in {qCall.filters.spec[1].value,
                                           qCall.filters.spec[2].value})

(***************************************************************************)
(* Properties of the site loader (under SpecLoad)                          *)
(***************************************************************************)
\* C7: when an exception is raised while load_site processes a raw site, the
\* call returns (nothing propagates) a site with state "Error" together with
\* an empty host map and an empty switch map.
LoadSiteErrorIsEmpty ==
  /\ lsPc = "except" => ENABLED LsExcept
  /\ (lsPc = "returned" /\ lsRet.site.state = "Error") =>
       /\ DOMAIN lsRet.hosts = {}
       /\ DOMAIN lsRet.switches = {}

ItemsNamed(items, n) == {k \in DOMAIN items : items[k].model_name = n}

RECURSIVE UnitTotal(_, _, _)
UnitTotal(items, K, f) ==
  IF K = {} THEN 0
  ELSE LET k == CHOOSE x \in K : TRUE
       IN  (IF items[k][f] = None THEN 0 ELSE items[k][f]) + UnitTotal(items, K \ {k}, f)

\* the hosts load_site has loaded so far, by position among the children
LoadedHosts == {i \in 1..lsIdx : ChildName(i) \in DOMAIN lsHosts}

\* C10: a host loaded by load_host has exactly one ComponentInfo per component
\* name of the raw host; for a name carried by several raw components its
\* capacity and allocated are the sums over them (a later component never
\* replaces an earlier one).
ComponentsMerged ==
  \A i \in LoadedHosts :
    LET items == rawSite.children[i].items
        comps == lsHosts[ChildName(i)].components
    IN  /\ DOMAIN comps = {items[k].model_name : k \in DOMAIN items}
        /\ \A n \in DOMAIN comps :
             LET K == ItemsNamed(items, n)
             IN  IF Cardinality(K) >= 2
                 THEN /\ comps[n].capacity = UnitTotal(items, K, "capacities_unit")
                      /\ comps[n].allocated = UnitTotal(items, K, "capacity_allocations_unit")
                 ELSE \A k \in K :
                        /\ comps[n].capacity = items[k].capacities_unit
                        /\ comps[n].allocated = items[k].capacity_allocations_unit

\* two raw "GPU-Tesla T4" components of capacity 1 each, loaded as one entry
\* of capacity 2
ComponentsMergedWitness ==
  \E i \in LoadedHosts :
    LET items == rawSite.children[i].items
        comps == lsHosts[ChildName(i)].components
    IN  /\ Len(items) = 2
        /\ \A k \in DOMAIN items :
             items[k].model_name = "GPU-Tesla T4" /\ items[k].capacities_unit = 1
        /\ DOMAIN comps = {"GPU-Tesla T4"}
        /\ comps["GPU-Tesla T4"].capacity = 2

(***************************************************************************)
(* Properties of FabricManagerV2 token handling                            *)
(***************************************************************************)
\* call 1 is an ended ensure_valid_id_token() without an explicit id_token,
\* auto_refresh is on, the stored token was within 30 minutes of its expiry
\* and a refresh token was stored
NearExpiryCall ==
  LET c == fmCalls[1]
  IN  /\ c.pc = "done"
      /\ c.op = "ensure_valid_id_token"
      /\ ~Truthy(c.arg)
      /\ fmConf.auto_refresh
      /\ Truthy(c.tok)
      /\ c.exp # None /\ c.exp - Now <= 30
      /\ Truthy(c.rtok)

\* call 1 is an ended ensure_valid_id_token(id_token) with an explicit token
ExplicitTokenCall ==
  LET c == fmCalls[1]
  IN  c.pc = "done" /\ c.op = "ensure_valid_id_token" /\ Truthy(c.arg)

\* C18 as stated: ensure_valid_id_token, called without an explicit id_token
\* while auto_refresh is on, the stored token is within 30 minutes of its
\* expiry and a refresh token is stored, performs exactly one refresh and
\* returns the id_token stored by that refresh, never the old token; an
\* explicitly passed id_token is returned as is with no refresh.
EnsureRefreshesOnce ==
  LET c == fmCalls[1]
  IN  /\ NearExpiryCall =>
           /\ c.refreshes = 1
           /\ c.ret.status = "returned"
           /\ c.ret.value = fmTokens.id_token
           /\ c.ret.value = c.reply.id_token
           /\ c.ret.value # c.tok
      /\ ExplicitTokenCall =>
           /\ c.ret = ReturnedTok(c.arg)
           /\ c.refreshes = 0

\* C18 amended: in that case ensure_valid_id_token calls refresh_tokens once,
\* which sends at most one refresh request; when the refresh succeeds the call
\* returns the id_token that refresh stored, never the old token; when it
\* fails (no project set, the Credential Manager raises or answers with an
\* empty list) the call raises FabricManagerV2Exception and the stored tokens
\* are as they were.  An explicit (non-empty) id_token is returned as is with
\* no refresh.
EnsureRefreshAttempt ==
  LET c == fmCalls[1]
  IN  /\ NearExpiryCall =>
           /\ c.refreshes = (IF fmConf.has_project THEN 1 ELSE 0)
           /\ c.ret.status \in {"returned", "FabricManagerV2Exception"}
           /\ c.ret.status = "returned" =>
                /\ c.refreshes = 1
                /\ c.ret.value = fmTokens.id_token
                /\ c.ret.value = c.reply.id_token
                /\ c.ret.value # c.tok
           /\ c.ret.status = "FabricManagerV2Exception" =>
                /\ fmTokens.id_token = c.tok
                /\ fmTokens.refresh_token = c.rtok
      /\ ExplicitTokenCall =>
           /\ c.ret = ReturnedTok(c.arg)
           /\ c.refreshes = 0
           /\ cmIssued = 0

\* a near-expiry call that refreshed and returned the newly issued token
EnsureRefreshWitness ==
  /\ NearExpiryCall
  /\ fmCalls[1].exp = 30
  /\ fmCalls[1].refreshes = 1
  /\ fmCalls[1].ret = ReturnedTok(Tok("id", 1))
  /\ fmTokens.id_token = Tok("id", 1)

\* the calls on the object have ended
AllCallsEnded == \A t \in FacadeCalls : fmCalls[t].pc \in {"idle", "done"}

\* C14: two facade calls on the same object running concurrently share no
\* mutable state, the stored tokens included: under every interleaving each
\* call returns what it returns when run alone (a call that refreshed returns
\* the id_token of its own refresh), and no call writes token state the other
\* has written (the stored id_token and refresh_token are the pair one call
\* stored, or the pair the object was constructed with).
CallsShareNoState ==
  /\ \A t \in FacadeCalls :
       LET c == fmCalls[t]
       IN  (c.pc = "done" /\ c.op = "ensure_valid_id_token"
              /\ c.ret.status = "returned" /\ Truthy(c.reply.id_token)) =>
             c.ret.value = c.reply.id_token
  /\ AllCallsEnded =>
       \/ fmTokens.id_token.n = fmTokens.refresh_token.n
       \/ fmTokens.refresh_token = NoTok

(***************************************************************************)
(* Properties of FabricManagerV2.poa (under SpecPoa)                       *)
(***************************************************************************)
\* C19: poa with wait=True, for a submission that carries a poa_id (in dict
\* or DTO format), does not return before polling and always ends: it
\* polls get_poas at most `retry` times, returns as soon as a poll reports
\* Success, raises as soon as a poll reports Failed, and otherwise returns the
\* last poll result after `retry` polls.
PoaWaitsForResult ==
  (poaPc = "done" /\ poaCall.wait /\ poaCall.sub = "id") =>
    /\ poaCall.retry > 0 => poaAttempt >= 1
    /\ poaAttempt <= Max0(poaCall.retry)
    /\ poaRet.status = "returned" =>
         \/ poaLatest \in {"Success", "Success_info"} /\ poaRet.value \in {"entry", "info"}
         \/ /\ poaLatest \notin {"Success", "Success_info", "Failed"}
            /\ poaAttempt = Max0(poaCall.retry)
            /\ poaRet.value = (IF poaAttempt = 0 THEN "submission" ELSE poaLatest)
    /\ poaLatest = "Failed" => poaRet = PoaRaised("ValueError")

(***************************************************************************)
(* Properties of TokenManagerV2 (under SpecTm)                             *)
(***************************************************************************)
\* the threads inside a `with self._lock:` block
InsideLock == {t \in TmThreadIds : tmThreads[t].pc \in {"locked", "post", "inflight", "store"}}

\* the threads whose refresh request has been sent and not yet handled
Refreshing == {t \in TmThreadIds : tmThreads[t].pc \in {"inflight", "store"}}

\* C20: concurrent calls of set_tokens, ensure_valid_id_token and
\* maybe_refresh_now on one instance exclude one another: at most one thread
\* is inside a method body and at most one refresh request is in flight, and
\* the stored pair is replaced as a whole: while a refresh is under way the
\* stored refresh_token is still the one that refresh sent, so the pair it
\* stores never joins its id_token with a refresh_token of another update.
TokenManagerExclusive ==
  /\ Cardinality(InsideLock) <= 1
  /\ Cardinality(Refreshing) <= 1
  /\ \A t \in InsideLock : tmLock = t
  /\ \A t \in Refreshing : tmPair.refresh_token = tmThreads[t].body

\* a thread waits for the lock while the other thread's refresh is in flight
TokenManagerWitness ==
  /\ tmThreads[1].pc = "inflight"
  /\ tmThreads[2].pc = "acquire"
  /\ tmThreads[2].op = "set_tokens"


(***************************************************************************)
(* Further properties of index construction (under SpecIndex)              *)
(***************************************************************************)
\* how often the (site, node, port) triple e occurs among the endpoints eps
Occurrences(e, eps) == Cardinality({k \in DOMAIN eps : eps[k] = e})

\* the same name and the same endpoint triples, in whatever order
SameLink(a, b) ==
  /\ a.name = b.name
  /\ Len(a.endpoints) = Len(b.endpoints)
  /\ \A e \in Range(a.endpoints) \cup Range(b.endpoints) :
       Occurrences(e, a.endpoints) = Occurrences(e, b.endpoints)

\* the record _index_links builds for raw link l
RecordOf(l) == LinkInfo(l.name, LinkEps(l))

LinkInBucketIffResolves ==
  Finished =>
    \A l \in Range(topology.links) : \A s \in Range(sites) :
      /\ pc = "done"
      /\ (\E i \in DOMAIN views[s].links : views[s].links[i] = RecordOf(l))
           <=> (\E k \in DOMAIN l.interfaces : l.interfaces[k].site = s)

\* C30: list_links() returns, and every link it returns has an endpoint at
\* an indexed site: a link none of whose endpoints resolves to an indexed
\* site is returned neither by list_links() nor by any site's get_links().
ListedLinksResolve ==
  Finished =>
    \A l \in Range(topology.links) :
      /\ pc = "done"
      /\ LET out == ListLinks(linksBySite, sites)
         IN  \A i \in DOMAIN out :
               \E k \in DOMAIN out[i].endpoints : out[i].endpoints[k].site \in Range(sites)
      /\ SitesSeen(l, sites) = {} =>
           /\ RecordOf(l) \notin Range(ListLinks(linksBySite, sites))
           /\ \A s \in Range(sites) : RecordOf(l) \notin Range(views[s].links)

\* C24: once the sites and hosts are indexed, every indexed site has a
\* non-empty host map: a raw site without hosts is not in the index.
IndexedSitesHaveHosts ==
  pc \in {"hosts", "fps", "links", "done", "raised"} =>
    \A s \in Range(sites) : DOMAIN hostsBySite[s] # {}


(***************************************************************************)
(* Paging through a list (under SpecQuery)                                 *)
(***************************************************************************)
\* the pages _paginate(data, limit=k, offset=i*k), i = i, i+1, ..., up to the
\* end of the list, one after the other
RECURSIVE PagesFrom(_, _, _)
PagesFrom(data, k, i) ==
  IF i * k >= Len(data) THEN <<>>
  ELSE Paginate(data, k, i * k) \o PagesFrom(data, k, i + 1)

\* C29: for a page size k >= 1 the pages _paginate(data, limit=k,
\* offset=i*k) are the consecutive windows of k records of the list, in
\* order: the page at offset i*k holds exactly the records i*k+1 .. i*k+k
\* that exist, a page past the end is empty, and the pages one after the
\* other are the list, every record once.
PagesPartition ==
  LET data == qCall.data
      n == Len(data)
      k == qCall.limit
      o == qCall.offset
  IN  (qCall.op = "paginate" /\ k # None /\ k >= 1 /\ o # None /\ o >= 0 /\ o % k = 0) =>
        /\ qRet.status = "list"
        /\ qRet.value = Between(data, Min(o, n), Min(o + k, n))
        /\ o >= n => qRet.value = <<>>
        /\ PagesFrom(data, k, 0) = data

\* the second page of size 2 of a list of three: its last record alone
PagesWitness ==
  /\ qCall.op = "paginate"
  /\ Len(qCall.data) = 3
  /\ qCall.limit = 2
  /\ qCall.offset = 2
  /\ qRet.value = <<qCall.data[3]>>


(***************************************************************************)
(* Properties of the SliceManager and of `resources query` (under SpecSm)  *)
(***************************************************************************)
\* the operations of the last call that go to the orchestrator or the Core API
SmServiceCall == smLast.op \notin {"", "__init__", "initialize"}

\* C21: `resources query` ends with exit code 0 only after printing
\* retrieved resources: whenever the SliceManager cannot be constructed
\* (missing configuration, a token that cannot be refreshed) or resources()
\* answers with a failure status, the exit code is not 0.
QueryExitCode ==
  (smConf.caller = "cli" /\ smLast.exit # None) =>
    (smLast.exit = 0 <=> (smLast.op = "resources" /\ smLast.status = "OK"))

\* C26: __should_renew answers True exactly when there is no id_token or
\* the tokens were created at least 30 minutes ago.
RenewAfterThirtyMinutes ==
  (SmServiceCall /\ smLast.initialized /\ smLast.renew # "") =>
    (smLast.renew = "True"
       <=> (smLast.tokens.id_token = NoTok
              \/ (smLast.tokens.created_at # None /\ smLast.tokens.created_at >= 30)))

\* C27 as stated: on a SliceManager constructed with initialize=False, every
\* operation called (with valid arguments) before initialize() has run fails
\* with 'Slice Manager has not been initialized!' without a request to the
\* orchestrator or the Core API, and initialize() loads the tokens at most
\* once.
NothingBeforeInitialize ==
  ~smConf.initialize =>
    /\ (SmServiceCall /\ smLast.valid /\ ~smLast.initialized) =>
         /\ smLast.error = "Slice Manager has not been initialized!"
         /\ smLast.requests = {}
    /\ smLoads <= 1

\* C27 amended: before initialize() has succeeded, every operation called
\* with valid arguments, except get_metrics_overview without
\* `authenticated`, fails with 'Slice Manager has not been initialized!' and
\* sends no request (invalid arguments are rejected first, also without a
\* request); get_metrics_overview without `authenticated` sends its request
\* to the orchestrator and nothing else; and initialize() on an initialized
\* manager loads nothing, sends nothing and leaves the tokens as they are.
InitializeGuardsOperations ==
  ~smConf.initialize =>
    /\ (SmServiceCall /\ ~smLast.initialized) =>
         IF ~smLast.valid
         THEN smLast.status = "INVALID_ARGUMENTS" /\ smLast.requests = {}
         ELSE IF smLast.op = "get_metrics_overview" /\ ~smLast.authenticated
         THEN smLast.requests = {"oc"} /\ smTokens = smLast.tokens
         ELSE /\ smLast.error = "Slice Manager has not been initialized!"
              /\ smLast.status \in {"FAILURE", "raised"}
              /\ smLast.requests = {}
              /\ smTokens = smLast.tokens
    /\ (smLast.op = "initialize" /\ smLast.initialized) =>
         /\ ~smLast.loaded
         /\ smLast.requests = {}
         /\ smTokens = smLast.tokens
    /\ smInitialized => smLoads >= 1

\* resources() called on a manager that was constructed with
\* initialize=False and not initialized since
InitializeGuardsWitness ==
  /\ ~smConf.initialize
  /\ smLast.op = "resources"
  /\ ~smLast.initialized
  /\ smLast.status = "FAILURE"
  /\ smLast.error = "Slice Manager has not been initialized!"


(***************************************************************************)
(* Failure of refresh_tokens (under SpecToken)                             *)
(***************************************************************************)
\* C28: whenever refresh_tokens, called directly or by
\* ensure_valid_id_token, has ended with FabricManagerV2Exception (no refresh
\* token, no project, a Credential Manager error, an empty token list) the
\* stored id_token, refresh_token, expires_at and created_at are what the
\* call found; they differ from that only after a refresh that succeeded,
\* and then all four are the ones of the Credential Manager's answer.
RefreshFailureKeepsTokens ==
  LET c == fmCalls[1]
  IN  (c.pc = "done" /\ c.op \in {"refresh_tokens", "ensure_valid_id_token"}) =>
        /\ c.ret = RaisedFm => fmTokens = c.before
        /\ fmTokens # c.before =>
             /\ c.refreshes = 1
             /\ c.ret.status = "returned"
             /\ fmTokens = c.reply
        /\ (c.op = "refresh_tokens" /\ c.ret.status = "returned") => fmTokens = c.reply

\* refresh_tokens() sent its request with the stored refresh token and the
\* Credential Manager call failed
RefreshFailureWitness ==
  /\ fmCalls[1].pc = "done"
  /\ fmCalls[1].op = "refresh_tokens"
  /\ fmCalls[1].refreshes = 1
  /\ fmCalls[1].ret = RaisedFm
  /\ fmTokens.id_token = Tok("id", 0)


(***************************************************************************)
(* The finished index is read-only (under SpecIndex)                       *)
(***************************************************************************)
\* C25: once index construction has finished, no step changes a record or
\* an index map: every read operation leaves the topology, the sites and
\* the host, facility-port and link indices, and what is bound to each
\* site, exactly as construction left them.
IndexFrozenAfterConstruction ==
  [][pc = "done" =>
       UNCHANGED <<topology, pc, sites, hostsBySite, fpsBySite, linksBySite, views>>]_vars

\* a summary was read from a finished index that holds a host
IndexFrozenWitness ==
  /\ pc = "done"
  /\ lastRead.op = "to_summary"
  /\ hostsBySite[lastRead.site] # EmptyDict
  /\ lastRead.value.cores_capacity > 0

====
